---- MODULE Spec2Model ----
(***************************************************************************)
(* Expression-construction layer of the DynamoDB helper library:           *)
(* key-condition expressions, reserved-word aliasing, update-expression    *)
(* generation and the Get/Update command builders.                         *)
(*                                                                         *)
(* JavaScript strings are TLA+ strings (Len, SubSeq and \o act on them).   *)
(* A call of an exported function is one action: it records the arguments  *)
(* in `call` and what the function returned or threw in `ret`.             *)
(* A function of the record layer awaits the storage engine: its call is   *)
(* two actions, with the commands the engine received in `sent`; `page` is *)
(* what the last queryRecords call of a paginating caller returned.        *)
(* `held` is the argument objects of a builder or validator call as the     *)
(* caller, who still holds them, finds them once the call has returned.    *)
(***************************************************************************)
EXTENDS Integers, Sequences, FiniteSets, TLC

VARIABLES call, ret, sent, page, held

vars == <<call, ret, sent, page, held>>

(* ------------------------------------------------------------------ *)
(* Bounds of the model                                                 *)
(* ------------------------------------------------------------------ *)

\* longest item (number of fields) handed to buildUpdateCommandInput
MaxFields == 2

\* longest projection list handed to buildGetCommandInput
MaxNames == 2

(* ------------------------------------------------------------------ *)
(* JavaScript values                                                   *)
(* ------------------------------------------------------------------ *)

\* the value of a missing string argument or property
Undefined == "<undefined>"

\* JS truthiness of an optional string: undefined and '' are falsy
Truthy(v) == v # Undefined /\ v # ""

\* an optional object (map, item): absent, or present with a value
None == [some |-> FALSE]

Some(v) == [some |-> TRUE, v |-> v]

\* a JS object with no own keys
EmptyMap == <<>>

\* {...m}: spreading undefined yields no keys
Spread(opt) == IF opt.some THEN opt.v ELSE EmptyMap

\* the spread written in the wrong order: on a key of both, a's entry wins
JsMerge_FirstWins(a, b) == a @@ b

\* {...a, ...b}: on a key of both, b's entry wins
JsMerge(a, b) == b @@ a

\* what a call produced: a returned value, or a thrown Error with its message
Ok(v) == [ok |-> TRUE, value |-> v, error |-> Undefined]

Err(msg) == [ok |-> FALSE, value |-> Undefined, error |-> msg]

\* no call is in progress: the functions are synchronous, a caller makes
\* one call at a time
NoCall == [op |-> "none"]

Idle == call = NoCall

\* the call in progress awaits the storage engine
Awaiting == call.op \in {"getRecordByKey", "queryRecords", "createRecord", "updateRecord"} /\ call.pc = "awaiting"

\* no argument objects are held: no builder or validator call has returned
NoObjects == [op |-> "none"]

\* the objects a caller passed, once the function has assigned `value` to
\* the object it names `target`: a local of the function is not an object
\* of the caller
written(objects, target, value) ==
  IF target \in DOMAIN objects THEN [objects EXCEPT ![target] = value] ELSE objects

(* ------------------------------------------------------------------ *)
(* String primitives                                                   *)
(* ------------------------------------------------------------------ *)

CharAt(s, i) == SubSeq(s, i, i)

LowerAlphabet == "abcdefghijklmnopqrstuvwxyz"

UpperAlphabet == "ABCDEFGHIJKLMNOPQRSTUVWXYZ"

Digits == "0123456789"

\* the characters of a string, as a set
CharsOf(s) == {CharAt(s, i) : i \in 1..Len(s)}

LowerLetters == CharsOf(LowerAlphabet)

UpperLetters == CharsOf(UpperAlphabet)

\* each lower-case letter's upper-case letter, and the converse
UpperOf == [c \in LowerLetters |-> CharAt(UpperAlphabet, CHOOSE i \in 1..26 : CharAt(LowerAlphabet, i) = c)]

LowerOf == [c \in UpperLetters |-> CharAt(LowerAlphabet, CHOOSE i \in 1..26 : CharAt(UpperAlphabet, i) = c)]

UpperChar(c) == IF c \in LowerLetters THEN UpperOf[c] ELSE c

LowerChar(c) == IF c \in UpperLetters THEN LowerOf[c] ELSE c

RECURSIVE toUpperCase(_)
toUpperCase(s) ==
  IF s = "" THEN "" ELSE UpperChar(CharAt(s, 1)) \o toUpperCase(SubSeq(s, 2, Len(s)))

\* a toLowerCase that leaves the letters as they are
toLowerCase_Unchanged(s) == s

RECURSIVE toLowerCase(_)
toLowerCase(s) ==
  IF s = "" THEN "" ELSE LowerChar(CharAt(s, 1)) \o toLowerCase(SubSeq(s, 2, Len(s)))

\* \s of a regular expression, and what trim() strips
IsSpace(c) == c \in {" ", "\t", "\n"}

\* \w of a regular expression
WordChars == LowerLetters \cup UpperLetters \cup CharsOf(Digits) \cup {"_"}

IsWordChar(c) == c \in WordChars

RECURSIVE trimStart(_)
trimStart(s) ==
  IF s # "" /\ IsSpace(CharAt(s, 1)) THEN trimStart(SubSeq(s, 2, Len(s))) ELSE s

RECURSIVE trimEnd(_)
trimEnd(s) ==
  IF s # "" /\ IsSpace(CharAt(s, Len(s))) THEN trimEnd(SubSeq(s, 1, Len(s) - 1)) ELSE s

trim(s) == trimEnd(trimStart(s))

startsWith(s, prefix) == Len(s) >= Len(prefix) /\ SubSeq(s, 1, Len(prefix)) = prefix

endsWith(s, suffix) ==
  Len(s) >= Len(suffix) /\ SubSeq(s, Len(s) - Len(suffix) + 1, Len(s)) = suffix

\* s.split(sep) for a non-empty separator string: the pieces between the
\* non-overlapping occurrences of sep, found left to right
RECURSIVE splitFrom(_, _, _, _)
splitFrom(s, sep, i, start) ==
  IF i + Len(sep) - 1 > Len(s)
  THEN <<SubSeq(s, start, Len(s))>>
  ELSE IF SubSeq(s, i, i + Len(sep) - 1) = sep
       THEN <<SubSeq(s, start, i - 1)>> \o splitFrom(s, sep, i + Len(sep), i + Len(sep))
       ELSE splitFrom(s, sep, i + 1, start)

split(s, sep) == splitFrom(s, sep, 1, 1)

\* parts.join(sep)
RECURSIVE join(_, _)
join(parts, sep) ==
  IF parts = <<>> THEN ""
  ELSE IF Len(parts) = 1 THEN parts[1]
       ELSE parts[1] \o sep \o join(Tail(parts), sep)

\* String(n) of a natural number
RECURSIVE numberToString(_)
numberToString(n) ==
  IF n < 10 THEN CharAt(Digits, n + 1)
  ELSE numberToString(n \div 10) \o CharAt(Digits, (n % 10) + 1)

(* ------------------------------------------------------------------ *)
(* Key-condition expression                                            *)
(* ------------------------------------------------------------------ *)

\* getOperatorSymbolByKey with the '<=' case returning '<' (a copied case
\* left unedited)
getOperatorSymbolByKey_CopiedCase(operation) ==
  LET key == toUpperCase(operation) IN
  CASE key = "BETWEEN" -> Ok("BETWEEN")
    [] key = "BEGINS_WITH" -> Ok("BEGINS_WITH")
    [] key \in {"GREATER_THAN", ">"} -> Ok(">")
    [] key \in {"LESS_THAN", "<"} -> Ok("<")
    [] key \in {"GREATER_THAN_OR_EQUAL", ">="} -> Ok(">=")
    [] key \in {"LESS_THAN_OR_EQUAL", "<="} -> Ok("<")
    [] key \in {"EQUAL", "="} -> Ok("=")
    [] OTHER -> Err("Invalid operation key: " \o operation)

getOperatorSymbolByKey(operation) ==
  LET key == toUpperCase(operation) IN
  CASE key = "BETWEEN" -> Ok("BETWEEN")
    [] key = "BEGINS_WITH" -> Ok("BEGINS_WITH")
    [] key \in {"GREATER_THAN", ">"} -> Ok(">")
    [] key \in {"LESS_THAN", "<"} -> Ok("<")
    [] key \in {"GREATER_THAN_OR_EQUAL", ">="} -> Ok(">=")
    [] key \in {"LESS_THAN_OR_EQUAL", "<="} -> Ok("<=")
    [] key \in {"EQUAL", "="} -> Ok("=")
    [] OTHER -> Err("Invalid operation key: " \o operation)

generateKeyConditionExpression(sortKey, skValue2, skComparatorArg) ==
  LET skComparator == IF skComparatorArg = Undefined THEN "=" ELSE skComparatorArg
      keyConditionExpression == "#pk = :pk"
  IN IF Truthy(sortKey)
     THEN LET symbol == getOperatorSymbolByKey(skComparator) IN
          IF ~symbol.ok THEN symbol
          ELSE CASE symbol.value = "=" -> Ok(keyConditionExpression \o " AND #sk = :sk")
                 [] symbol.value = "<" -> Ok(keyConditionExpression \o " AND #sk < :sk")
                 [] symbol.value = ">" -> Ok(keyConditionExpression \o " AND #sk > :sk")
                 [] symbol.value = "<=" -> Ok(keyConditionExpression \o " AND #sk <= :sk")
                 [] symbol.value = ">=" -> Ok(keyConditionExpression \o " AND #sk >= :sk")
                 [] symbol.value = "BEGINS_WITH" ->
                      IF ~Truthy(sortKey)
                      THEN Err("BEGINS_WITH operation requires sortKey.")
                      ELSE Ok(keyConditionExpression \o " AND begins_with(#sk, :skValue2)")
                 [] symbol.value = "BETWEEN" ->
                      IF ~Truthy(sortKey) \/ ~Truthy(skValue2)
                      THEN Err("BETWEEN operation requires both sk and skValue2.")
                      ELSE Ok(keyConditionExpression \o " AND #sk BETWEEN :sk AND :skValue2")
                 [] OTHER -> Err("Invalid operation: " \o skComparator)
     ELSE Ok(keyConditionExpression)

\* sort-key values a caller passes: none, the empty string, a string
SortKeyValues == {Undefined, "", "ORDER#", "42"}

\* second range values a caller passes
SkValue2Values == {Undefined, "", "ORDER#9"}

\* comparator tokens a caller passes: none, the symbols, the operation keys
\* in several letter cases, and tokens that name no operation
ComparatorTokens ==
  {Undefined, "=", "<", ">", "<=", ">=",
   "EQUAL", "equal", "Equal", "LESS_THAN", "less_than", "GREATER_THAN", "Greater_Than",
   "LESS_THAN_OR_EQUAL", "less_than_or_equal", "GREATER_THAN_OR_EQUAL",
   "greater_than_or_equal", "BEGINS_WITH", "begins_with", "Begins_With",
   "BETWEEN", "between", "Between",
   "CONTAINS", "contains", "EQUALS", "begins-with", "!=", ""}

GenerateKeyConditionExpression ==
  /\ Idle
  /\ \E sortKey \in SortKeyValues, skValue2 \in SkValue2Values, skComparator \in ComparatorTokens :
    /\ call' = [op |-> "generateKeyConditionExpression",
                sortKey |-> sortKey, skValue2 |-> skValue2, skComparator |-> skComparator]
    /\ ret' = generateKeyConditionExpression(sortKey, skValue2, skComparator)
  /\ UNCHANGED <<sent, page, held>>

(* ------------------------------------------------------------------ *)
(* Reserved-word aliasing                                              *)
(* ------------------------------------------------------------------ *)

\* The table of engine-reserved words (dynamo-reserved-keywords): lower-case
\* words, of which the model keeps three.
RESERVED_KEYWORDS == <<"name", "size", "status">>

\* RESERVED_KEYWORDS.includes(word)
includesKeyword(word) == \E k \in 1..Len(RESERVED_KEYWORDS) : RESERVED_KEYWORDS[k] = word

\* (?=\s*=) at position j of s: optional white space, then '='
RECURSIVE lookaheadEquals(_, _)
lookaheadEquals(s, j) ==
  IF j > Len(s) THEN FALSE
  ELSE IF IsSpace(CharAt(s, j)) THEN lookaheadEquals(s, j + 1)
       ELSE CharAt(s, j) = "="

\* the regular expression \bkeyword\b(?=\s*=) matches s at position i
\* (keyword is made of word characters; the match is case-sensitive)
keywordMatchesAt(s, keyword, i) ==
  LET j == i + Len(keyword) IN
  /\ j - 1 <= Len(s)
  /\ SubSeq(s, i, j - 1) = keyword
  /\ (i = 1 \/ ~IsWordChar(CharAt(s, i - 1)))
  /\ (j > Len(s) \/ ~IsWordChar(CharAt(s, j)))
  /\ lookaheadEquals(s, j)

\* s.replace(new RegExp(`\\b${keyword}\\b(?=\\s*=)`, 'g'), `#${keyword}`), from position i on
RECURSIVE replaceKeywordFrom(_, _, _)
replaceKeywordFrom(s, keyword, i) ==
  IF i > Len(s) THEN ""
  ELSE IF keywordMatchesAt(s, keyword, i)
       THEN "#" \o keyword \o replaceKeywordFrom(s, keyword, i + Len(keyword))
       ELSE CharAt(s, i) \o replaceKeywordFrom(s, keyword, i + 1)

\* RESERVED_KEYWORDS.forEach(keyword => assignment = assignment.replace(...)), from the k-th keyword on
RECURSIVE replaceKeywordsInAssignment(_, _)
replaceKeywordsInAssignment(assignment, k) ==
  IF k > Len(RESERVED_KEYWORDS) THEN assignment
  ELSE replaceKeywordsInAssignment(replaceKeywordFrom(assignment, RESERVED_KEYWORDS[k], 1), k + 1)

replaceReservedKeywordsFromUpdateExp(updateExpression) ==
  LET assignments == split(updateExpression, ", ")
      updatedAssignments ==
        [n \in 1..Len(assignments) |-> replaceKeywordsInAssignment(assignments[n], 1)]
  IN join(updatedAssignments, ", ")

replaceReservedKeywordsFromProjection(projection) ==
  LET assignments == split(projection, ", ")
      updatedAssignments ==
        [n \in 1..Len(assignments) |->
           IF includesKeyword(toLowerCase(trim(assignments[n])))
           THEN "#" \o assignments[n]
           ELSE assignments[n]]
  IN join(updatedAssignments, ", ")

\* keyword.replace('#', ''): the first '#' of the string is removed
RECURSIVE removeFirstHash(_)
removeFirstHash(s) ==
  IF s = "" THEN ""
  ELSE IF CharAt(s, 1) = "#" THEN SubSeq(s, 2, Len(s))
       ELSE CharAt(s, 1) \o removeFirstHash(SubSeq(s, 2, Len(s)))

extractExpAttributeNamesFromString(projectionExpression) ==
  LET attrs == split(projectionExpression, ",")
      reservedKeywords == {trim(attrs[n]) : n \in {m \in 1..Len(attrs) : startsWith(trim(attrs[m]), "#")}}
  IN [keyword \in reservedKeywords |-> removeFirstHash(keyword)]

\* expression.split(/\s*,\s*/): the pieces between the commas, without the
\* white space that touches a comma
splitCommaSpaces(expression) ==
  LET pieces == split(expression, ",") IN
  [n \in 1..Len(pieces) |->
     LET left == IF n > 1 THEN trimStart(pieces[n]) ELSE pieces[n]
     IN IF n < Len(pieces) THEN trimEnd(left) ELSE left]

extractExpAttributeNamesFromUpdate(expressionArg) ==
  LET normalized == toUpperCase(trim(expressionArg))
      expression == IF startsWith(normalized, "SET ")
                    THEN trim(SubSeq(expressionArg, 4, Len(expressionArg)))
                    ELSE expressionArg
      assignments == splitCommaSpaces(expression)
      attributeName(n) == trim(split(assignments[n], "=")[1])
  IN [name \in {attributeName(n) : n \in {m \in 1..Len(assignments) : startsWith(attributeName(m), "#")}}
        |-> SubSeq(name, 2, Len(name))]

(* ------------------------------------------------------------------ *)
(* Update command                                                      *)
(* ------------------------------------------------------------------ *)

\* mergedValues[attributeKey] !== undefined. An attribute value is a string,
\* a number, a boolean, null or a Buffer, never undefined, so the test is
\* whether the map has the key.
hasValue(values, attributeKey) == attributeKey \in DOMAIN values

\* the placeholder without the search for a free key
uniqueAttributeKey_NoCheck(field, mergedValues, counter) == ":" \o field

\* let attributeKey = `:${field}`; let counter = 0;
\* while (mergedValues[attributeKey] !== undefined) { counter++; attributeKey = `:${field}_update_${counter}` }
RECURSIVE uniqueAttributeKey(_, _, _)
uniqueAttributeKey(field, mergedValues, counter) ==
  LET attributeKey == IF counter = 0
                      THEN ":" \o field
                      ELSE ":" \o field \o "_update_" \o numberToString(counter)
  IN IF hasValue(mergedValues, attributeKey)
     THEN uniqueAttributeKey(field, mergedValues, counter + 1)
     ELSE attributeKey

\* for (const [field, value] of Object.entries(item)) { ... }: the loop over
\* the entries left, with updateExpParts and dynamicValues as built so far
RECURSIVE generateAssignments(_, _, _, _)
generateAssignments(entries, mergedValues, updateExpParts, dynamicValues) ==
  IF entries = <<>>
  THEN [updateExpParts |-> updateExpParts, dynamicValues |-> dynamicValues]
  ELSE LET field == entries[1][1]
           value == entries[1][2]
           attributeKey == uniqueAttributeKey(field, mergedValues, 0)
       IN generateAssignments(Tail(entries), mergedValues,
                              Append(updateExpParts, field \o " = " \o attributeKey),
                              (attributeKey :> value) @@ dynamicValues)

\* Object.keys(m).length ? m : undefined
presentIfNonEmpty(m) == IF DOMAIN m # {} THEN Some(m) ELSE None

buildUpdateCommandInput(input) ==
  LET mergedNames == JsMerge(Spread(input.expressionAttributeNames), Spread(input.extraExpAttributeNames))
      mergedValues == JsMerge(Spread(input.expressionAttributeValues),
                              Spread(input.extraExpressionAttributeValues))
      ReturnValues == IF input.returnValues = Undefined THEN "NONE" ELSE input.returnValues
  IN IF Truthy(input.updateExpression)
     THEN Ok([TableName |-> input.tableName,
              Key |-> input.key,
              UpdateExpression |-> input.updateExpression,
              ConditionExpression |-> input.conditionExpression,
              ExpressionAttributeNames |-> presentIfNonEmpty(mergedNames),
              ExpressionAttributeValues |-> presentIfNonEmpty(mergedValues),
              ReturnValues |-> ReturnValues])
     ELSE IF ~input.item.some \/ Len(input.item.v) = 0
          THEN Err("Either updateExpression or item with at least one field must be provided.")
          ELSE LET generated == generateAssignments(input.item.v, mergedValues, <<>>, EmptyMap)
                   UpdateExpression ==
                     replaceReservedKeywordsFromUpdateExp("SET " \o join(generated.updateExpParts, ", "))
               IN Ok([TableName |-> input.tableName,
                      Key |-> input.key,
                      UpdateExpression |-> UpdateExpression,
                      ConditionExpression |-> input.conditionExpression,
                      ExpressionAttributeNames |->
                        presentIfNonEmpty(JsMerge(extractExpAttributeNamesFromUpdate(UpdateExpression),
                                                  mergedNames)),
                      ExpressionAttributeValues |->
                        presentIfNonEmpty(JsMerge(mergedValues, generated.dynamicValues)),
                      ReturnValues |-> ReturnValues])

\* the loop of the earlier builder: attributeKey is always `:${field}`
RECURSIVE generateAssignmentsLegacy(_, _, _)
generateAssignmentsLegacy(entries, updateExpParts, dynamicValues) ==
  IF entries = <<>>
  THEN [updateExpParts |-> updateExpParts, dynamicValues |-> dynamicValues]
  ELSE LET field == entries[1][1]
           value == entries[1][2]
           attributeKey == ":" \o field
       IN generateAssignmentsLegacy(Tail(entries),
                                    Append(updateExpParts, field \o " = " \o attributeKey),
                                    (attributeKey :> value) @@ dynamicValues)

\* The earlier builder kept in command/updated-command.ts: no test of the
\* item; Object.entries(undefined) throws a TypeError.
buildUpdateCommandInputLegacy(input) ==
  LET mergedNames == JsMerge(Spread(input.expressionAttributeNames), Spread(input.extraExpAttributeNames))
      mergedValues == JsMerge(Spread(input.expressionAttributeValues),
                              Spread(input.extraExpressionAttributeValues))
      ReturnValues == IF input.returnValues = Undefined THEN "NONE" ELSE input.returnValues
  IN IF Truthy(input.updateExpression)
     THEN Ok([TableName |-> input.tableName,
              Key |-> input.key,
              UpdateExpression |-> input.updateExpression,
              ConditionExpression |-> input.conditionExpression,
              ExpressionAttributeNames |-> presentIfNonEmpty(mergedNames),
              ExpressionAttributeValues |-> presentIfNonEmpty(mergedValues),
              ReturnValues |-> ReturnValues])
     ELSE IF ~input.item.some
          THEN Err("TypeError: Cannot convert undefined or null to object")
          ELSE LET generated == generateAssignmentsLegacy(input.item.v, <<>>, EmptyMap)
                   UpdateExpression ==
                     replaceReservedKeywordsFromUpdateExp("SET " \o join(generated.updateExpParts, ", "))
               IN Ok([TableName |-> input.tableName,
                      Key |-> input.key,
                      UpdateExpression |-> UpdateExpression,
                      ConditionExpression |-> input.conditionExpression,
                      ExpressionAttributeNames |->
                        presentIfNonEmpty(JsMerge(extractExpAttributeNamesFromUpdate(UpdateExpression),
                                                  mergedNames)),
                      ExpressionAttributeValues |->
                        presentIfNonEmpty(JsMerge(mergedValues, generated.dynamicValues)),
                      ReturnValues |-> ReturnValues])

\* field names of the entities updated: a reserved word, a reserved word in
\* another letter case, a name that contains a reserved word, plain names
FieldNames == {"size", "Size", "page-size", "email", "email_update_1", "color"}

\* the sequences of at most n distinct field names
FieldLists(n) ==
  UNION {{fs \in [1..k -> FieldNames] : \A i, j \in 1..k : i # j => fs[i] # fs[j]} : k \in 0..n}

\* the value of the i-th field of an item
FieldValue(i) == "v" \o numberToString(i)

\* the partial entities: Object.entries(item) in the item's field order
Items == {[i \in 1..Len(fs) |-> <<fs[i], FieldValue(i)>>] : fs \in FieldLists(MaxFields)}

\* the items a caller passes, or none
OptionalItems == {None} \cup {Some(item) : item \in Items}

\* the value maps a caller supplies, as
\* <<expressionAttributeValues, extraExpressionAttributeValues>>
SuppliedValues ==
  {<<None, None>>,
   <<Some(EmptyMap), None>>,
   <<Some(":email" :> "old"), None>>,
   <<Some((":email" :> "old") @@ (":email_update_1" :> "older")), None>>,
   <<None, Some(":email" :> "extra")>>,
   <<Some(":email" :> "old"), Some(":email" :> "extra")>>,
   <<None, Some(":min" :> "100")>>}

\* the name maps a caller supplies, as
\* <<expressionAttributeNames, extraExpAttributeNames>>
SuppliedNames ==
  {<<None, None>>,
   <<Some(EmptyMap), None>>,
   <<Some("#size" :> "dimension"), None>>,
   <<None, Some("#email" :> "email")>>,
   <<Some("#size" :> "dimension"), Some("#size" :> "width")>>}

\* explicit update expressions a caller supplies
UpdateExpressions == {"SET #email = :email", "SET size = :size"}

UpdateInput(item, updateExpression, names, values) ==
  [tableName |-> "Users",
   key |-> ("pk" :> "USER#1"),
   item |-> item,
   updateExpression |-> updateExpression,
   conditionExpression |-> Undefined,
   expressionAttributeNames |-> names[1],
   expressionAttributeValues |-> values[1],
   extraExpAttributeNames |-> names[2],
   extraExpressionAttributeValues |-> values[2],
   returnValues |-> Undefined]

\* the inputs of buildUpdateCommandInput: every item with no update
\* expression or an empty one, and the items of at most one field with an
\* explicit one
UpdateInputs ==
  {UpdateInput(item, Undefined, names, values) :
     item \in OptionalItems, names \in SuppliedNames, values \in SuppliedValues}
  \cup
  {UpdateInput(item, "", <<None, None>>, values) :
     item \in OptionalItems, values \in SuppliedValues}
  \cup
  {UpdateInput(item, updateExpression, names, values) :
     item \in {i \in OptionalItems : i.some => Len(i.v) <= 1},
     updateExpression \in UpdateExpressions,
     names \in SuppliedNames, values \in SuppliedValues}

\* the inputs of the earlier builder
LegacyUpdateInputs ==
  {input \in UpdateInputs :
     /\ input.expressionAttributeNames = None
     /\ input.extraExpAttributeNames = None}

\* the input of the update builders after the call: the merged maps are
\* spread copies, and the loop assigns to its own dynamicValues
buildUpdateCommandInputHeld(input) ==
  written([input |-> input], "dynamicValues",
          generateAssignments(Spread(input.item),
                              JsMerge(Spread(input.expressionAttributeValues),
                                      Spread(input.extraExpressionAttributeValues)),
                              <<>>, EmptyMap).dynamicValues)

BuildUpdateCommandInput ==
  /\ Idle
  /\ \E input \in UpdateInputs :
    /\ call' = [op |-> "buildUpdateCommandInput", input |-> input]
    /\ ret' = buildUpdateCommandInput(input)
    /\ held' = buildUpdateCommandInputHeld(input)
  /\ UNCHANGED <<sent, page>>

BuildUpdateCommandInputLegacy ==
  /\ Idle
  /\ \E input \in LegacyUpdateInputs :
    /\ call' = [op |-> "buildUpdateCommandInputLegacy", input |-> input]
    /\ ret' = buildUpdateCommandInputLegacy(input)
    /\ held' = buildUpdateCommandInputHeld(input)
  /\ UNCHANGED <<sent, page>>

(* ------------------------------------------------------------------ *)
(* Get command                                                         *)
(* ------------------------------------------------------------------ *)

buildGetCommandInput(input) ==
  LET ProjectionExpression ==
        IF Truthy(input.projectionExpression)
        THEN replaceReservedKeywordsFromProjection(input.projectionExpression)
        ELSE Undefined
      expressionAttributeNames ==
        JsMerge(IF Truthy(ProjectionExpression)
                THEN extractExpAttributeNamesFromString(ProjectionExpression)
                ELSE EmptyMap,
                Spread(input.expressionAttributeNames))
  IN Ok([TableName |-> input.tableName,
         Key |-> input.key,
         ProjectionExpression |-> ProjectionExpression,
         ConsistentRead |-> input.consistentRead,
         ReturnConsumedCapacity |-> input.returnConsumedCapacity,
         ExpressionAttributeNames |-> presentIfNonEmpty(expressionAttributeNames)])

\* attribute names a caller projects: reserved words, a reserved word in
\* another letter case, a name that contains a reserved word, a plain name
ProjectionNames == {"size", "Size", "name", "page-size", "color"}

\* what a caller writes between two names of a projection list
Separators == {", ", ",", ",  ", " , "}

\* the sequences of 1..n distinct projected names
NameLists(n) ==
  UNION {{ns \in [1..k -> ProjectionNames] : \A i, j \in 1..k : i # j => ns[i] # ns[j]} : k \in 1..n}

\* the projection lists a caller writes: names joined by one separator
Projections == {[names |-> ns, sep |-> sep] : ns \in NameLists(MaxNames), sep \in Separators}

\* the projection expressions a caller passes: none, empty, or a list
ProjectionExpressions == {Undefined, ""} \cup {join(p.names, p.sep) : p \in Projections}

\* name maps a caller supplies to the Get builder
GetSuppliedNames == {None, Some(EmptyMap), Some("#size" :> "dimension")}

GetInputs ==
  {[tableName |-> "Users",
    key |-> ("pk" :> "USER#1"),
    projectionExpression |-> projection,
    expressionAttributeNames |-> names,
    consistentRead |-> Undefined,
    returnConsumedCapacity |-> Undefined] :
     projection \in ProjectionExpressions, names \in GetSuppliedNames}

\* the input of the Get builder after the call: the one assignment is to
\* commandInput, the object literal that the builder returns
buildGetCommandInputHeld(input) ==
  written([input |-> input], "commandInput", buildGetCommandInput(input).value)

BuildGetCommandInput ==
  /\ Idle
  /\ \E input \in GetInputs :
    /\ call' = [op |-> "buildGetCommandInput", input |-> input]
    /\ ret' = buildGetCommandInput(input)
    /\ held' = buildGetCommandInputHeld(input)
  /\ UNCHANGED <<sent, page>>

(* ------------------------------------------------------------------ *)
(* Numbers and JSON                                                    *)
(* ------------------------------------------------------------------ *)

\* JS values that are not plain strings carry their type as the field name:
\* [str |-> s], [num |-> n], [nan |-> TRUE], [bool |-> b], [null |-> TRUE],
\* [obj |-> map], [arr |-> sequence], [bin |-> bytes] (a Uint8Array)
JStr(s) == [str |-> s]

JNum(n) == [num |-> n]

NaN == [nan |-> TRUE]

JBool(b) == [bool |-> b]

JNull == [null |-> TRUE]

JObj(m) == [obj |-> m]

JArr(a) == [arr |-> a]

JBin(bytes) == [bin |-> bytes]

\* the character at index i, or '' past the end of the string
peek(s, i) == IF i >= 1 /\ i <= Len(s) THEN CharAt(s, i) ELSE ""

DigitChars == CharsOf(Digits)

DigitValue == [c \in DigitChars |-> CHOOSE d \in 0..9 : CharAt(Digits, d + 1) = c]

\* the index after the run of decimal digits that starts at i
RECURSIVE skipDigits(_, _)
skipDigits(s, i) == IF peek(s, i) \in DigitChars THEN skipDigits(s, i + 1) ELSE i

\* the value of the decimal digits s[i..j-1], after the value acc of the
\* digits before them
RECURSIVE digitsValue(_, _, _, _)
digitsValue(s, i, j, acc) ==
  IF i >= j THEN acc ELSE digitsValue(s, i + 1, j, 10 * acc + DigitValue[CharAt(s, i)])

\* Number(text) for a string: white space is trimmed, '' is 0, an optionally
\* signed run of decimal digits is that integer, any other text is NaN.
\* (Literals with a fraction, an exponent or a radix prefix, and Infinity,
\* are numbers in JS too; the model's inputs hold none.)
Number(text) ==
  LET s == trim(text)
      signed == peek(s, 1) \in {"+", "-"}
      first == IF signed THEN 2 ELSE 1
  IN IF s = "" THEN JNum(0)
     ELSE IF first <= Len(s) /\ skipDigits(s, first) = Len(s) + 1
          THEN LET n == digitsValue(s, first, Len(s) + 1, 0)
               IN JNum(IF peek(s, 1) = "-" THEN 0 - n ELSE n)
          ELSE NaN

\* String(n) of an integer
String(n) == IF n < 0 THEN "-" \o numberToString(0 - n) ELSE numberToString(n)

\* Math.max(1, Math.min(100, n))
clamp(n) == IF n < 1 THEN 1 ELSE IF n > 100 THEN 100 ELSE n

\* the outcome of a JSON parsing step: a failure, or a value and the index
\* of the first character after it
JsonFail == [ok |-> FALSE]

JsonAt(v, j) == [ok |-> TRUE, value |-> v, next |-> j]

IsJsonSpace(c) == c \in {" ", "\t", "\n", "\r"}

RECURSIVE skipWhitespace(_, _)
skipWhitespace(s, i) == IF IsJsonSpace(peek(s, i)) THEN skipWhitespace(s, i + 1) ELSE i

\* the characters of a JSON string from index i (after the opening quote)
\* to the closing quote, appended to acc. The escapes \" \\ \/ \n \t \r are
\* decoded (\b, \f and \uXXXX are JSON too; the model's inputs hold none).
RECURSIVE parseJsonChars(_, _, _)
parseJsonChars(s, i, acc) ==
  LET c == peek(s, i)
      e == peek(s, i + 1)
  IN IF c = "" \/ c \in {"\n", "\t", "\r"} THEN JsonFail
     ELSE IF c = "\"" THEN JsonAt(acc, i + 1)
     ELSE IF c = "\\"
          THEN IF e \in {"\"", "\\", "/"} THEN parseJsonChars(s, i + 2, acc \o e)
               ELSE IF e = "n" THEN parseJsonChars(s, i + 2, acc \o "\n")
               ELSE IF e = "t" THEN parseJsonChars(s, i + 2, acc \o "\t")
               ELSE IF e = "r" THEN parseJsonChars(s, i + 2, acc \o "\r")
               ELSE JsonFail
     ELSE parseJsonChars(s, i + 1, acc \o c)

\* a JSON number at index i: -? (0 | [1-9][0-9]*), as an integer (a number
\* with a fraction or an exponent is JSON too; the model's inputs hold none)
parseJsonNumber(s, i) ==
  LET first == IF peek(s, i) = "-" THEN i + 1 ELSE i
      j == skipDigits(s, first)
      n == digitsValue(s, first, j, 0)
  IN IF j = first \/ (peek(s, first) = "0" /\ j > first + 1) \/ peek(s, j) \in {".", "e", "E"}
     THEN JsonFail
     ELSE JsonAt(JNum(IF first > i THEN 0 - n ELSE n), j)

\* the literal word at index i
parseJsonLiteral(s, i, word, v) ==
  IF i + Len(word) - 1 <= Len(s) /\ SubSeq(s, i, i + Len(word) - 1) = word
  THEN JsonAt(v, i + Len(word))
  ELSE JsonFail

RECURSIVE parseJsonValue(_, _)
RECURSIVE parseJsonMembers(_, _, _)
RECURSIVE parseJsonElements(_, _, _)

\* the members of a JSON object from index i (a key is expected), added to
\* the members m read so far; a later member replaces an earlier one of the
\* same key
parseJsonMembers(s, i, m) ==
  LET k == skipWhitespace(s, i)
      key == IF peek(s, k) = "\"" THEN parseJsonChars(s, k + 1, "") ELSE JsonFail
      colon == IF key.ok THEN skipWhitespace(s, key.next) ELSE 0
      val == IF key.ok /\ peek(s, colon) = ":" THEN parseJsonValue(s, colon + 1) ELSE JsonFail
      after == IF val.ok THEN skipWhitespace(s, val.next) ELSE 0
  IN IF ~val.ok THEN JsonFail
     ELSE LET m2 == JsMerge(m, key.value :> val.value)
          IN IF peek(s, after) = "," THEN parseJsonMembers(s, after + 1, m2)
             ELSE IF peek(s, after) = "}" THEN JsonAt(JObj(m2), after + 1)
             ELSE JsonFail

\* the elements of a JSON array from index i, appended to a
parseJsonElements(s, i, a) ==
  LET val == parseJsonValue(s, i)
      after == IF val.ok THEN skipWhitespace(s, val.next) ELSE 0
  IN IF ~val.ok THEN JsonFail
     ELSE IF peek(s, after) = "," THEN parseJsonElements(s, after + 1, Append(a, val.value))
     ELSE IF peek(s, after) = "]" THEN JsonAt(JArr(Append(a, val.value)), after + 1)
     ELSE JsonFail

\* the JSON value that starts at index i, after white space
parseJsonValue(s, i) ==
  LET k == skipWhitespace(s, i)
      c == peek(s, k)
  IN IF c = "{"
     THEN IF peek(s, skipWhitespace(s, k + 1)) = "}"
          THEN JsonAt(JObj(EmptyMap), skipWhitespace(s, k + 1) + 1)
          ELSE parseJsonMembers(s, k + 1, EmptyMap)
     ELSE IF c = "["
     THEN IF peek(s, skipWhitespace(s, k + 1)) = "]"
          THEN JsonAt(JArr(<<>>), skipWhitespace(s, k + 1) + 1)
          ELSE parseJsonElements(s, k + 1, <<>>)
     ELSE IF c = "\"" THEN LET str == parseJsonChars(s, k + 1, "")
                           IN IF str.ok THEN JsonAt(JStr(str.value), str.next) ELSE JsonFail
     ELSE IF c = "-" \/ c \in DigitChars THEN parseJsonNumber(s, k)
     ELSE IF c = "t" THEN parseJsonLiteral(s, k, "true", JBool(TRUE))
     ELSE IF c = "f" THEN parseJsonLiteral(s, k, "false", JBool(FALSE))
     ELSE IF c = "n" THEN parseJsonLiteral(s, k, "null", JNull)
     ELSE JsonFail

\* JSON.parse wrapped in a try/catch that swallows the SyntaxError and goes
\* on with null
JSONparse_Swallowed(text) ==
  LET r == parseJsonValue(text, 1)
  IN IF r.ok /\ skipWhitespace(text, r.next) = Len(text) + 1
     THEN Ok(r.value)
     ELSE Ok(JNull)

\* JSON.parse(text): the value of the one JSON text, or a SyntaxError
JSONparse(text) ==
  LET r == parseJsonValue(text, 1)
  IN IF r.ok /\ skipWhitespace(text, r.next) = Len(text) + 1
     THEN Ok(r.value)
     ELSE Err("SyntaxError")

\* a string as a JSON string: quoted, with " \ and control characters escaped
RECURSIVE quoteJsonFrom(_, _)
quoteJsonFrom(s, i) ==
  LET c == peek(s, i)
  IN IF c = "" THEN ""
     ELSE (IF c = "\"" THEN "\\\""
           ELSE IF c = "\\" THEN "\\\\"
           ELSE IF c = "\n" THEN "\\n"
           ELSE IF c = "\t" THEN "\\t"
           ELSE IF c = "\r" THEN "\\r"
           ELSE c) \o quoteJsonFrom(s, i + 1)

quoteJson(s) == "\"" \o quoteJsonFrom(s, 1) \o "\""

\* the own enumerable properties of a Uint8Array, in index order: its bytes
\* under the keys '0', '1', ...
bytesEntries(bytes) == [i \in 1..Len(bytes) |-> <<String(i - 1), JNum(bytes[i])>>]

RECURSIVE JSONstringify(_)
RECURSIVE stringifyEntries(_, _)

\* the members of the entries from index i on, separated by commas
stringifyEntries(entries, i) ==
  IF i > Len(entries) THEN ""
  ELSE (IF i > 1 THEN "," ELSE "")
       \o quoteJson(entries[i][1]) \o ":" \o JSONstringify(entries[i][2])
       \o stringifyEntries(entries, i + 1)

\* JSON.stringify(value), for a string, an integer, a Uint8Array (which has
\* no toJSON and is written as an object of its indexes) and an object given
\* by its entries in property order
JSONstringify(v) ==
  IF "str" \in DOMAIN v THEN quoteJson(v.str)
  ELSE IF "num" \in DOMAIN v THEN String(v.num)
  ELSE IF "bin" \in DOMAIN v THEN "{" \o stringifyEntries(bytesEntries(v.bin), 1) \o "}"
  ELSE "{" \o stringifyEntries(v.entries, 1) \o "}"

(* ------------------------------------------------------------------ *)
(* Typed key values                                                    *)
(* ------------------------------------------------------------------ *)

\* the items of a comma-separated list, each trimmed
trimmedItems(key) ==
  LET each(items) == [i \in 1..Len(items) |-> trim(items[i])]
  IN each(split(key, ","))

\* numbers.filter((num) => !isNaN(num))
RECURSIVE withoutNaN(_)
withoutNaN(numbers) ==
  IF numbers = <<>> THEN <<>>
  ELSE (IF numbers[1] = NaN THEN <<>> ELSE <<numbers[1]>>) \o withoutNaN(Tail(numbers))

\* parseDynamoKeyValue(key, keyType). A member of a binary set is the Buffer
\* decoded from its base64 text, written [base64 |-> text]. Below, parsed is
\* JSON.parse(key) and items is key.split(',').map((item) => item.trim()),
\* each evaluated only in the branches that use it.
parseDynamoKeyValue(key, keyType) ==
  LET typed(parsed, items) ==
        CASE keyType = "S" -> Ok(JStr(key))
          [] keyType = "N" -> Ok(Number(key))
          [] keyType = "BOOL" -> Ok(JBool(toLowerCase(key) = "true"))
          [] keyType = "NULL" -> Ok(JNull)
          [] keyType = "M" ->
               IF parsed.ok THEN parsed ELSE Err("Invalid JSON format for partitionKeyType M (Map)")
          [] keyType = "L" ->
               IF parsed.ok THEN parsed ELSE Err("Invalid JSON format for partitionKeyType L (List)")
          [] keyType = "SS" -> Ok(JArr([i \in 1..Len(items) |-> JStr(items[i])]))
          [] keyType = "NS" -> Ok(JArr(withoutNaN([i \in 1..Len(items) |-> Number(items[i])])))
          [] keyType = "BS" -> Ok(JArr([i \in 1..Len(items) |-> [base64 |-> items[i]]]))
          [] OTHER -> Err("Unsupported partitionKeyType: " \o keyType)
  IN typed(JSONparse(key), trimmedItems(key))

(* ------------------------------------------------------------------ *)
(* Put command                                                         *)
(* ------------------------------------------------------------------ *)

\* Object.keys(Item): the field names of the item's entries, in order
objectKeys(entries) == [i \in 1..Len(entries) |-> entries[i][1]]

buildPutCommandInput(input) ==
  LET Item == input.item
      ConditionExpression == input.conditionExpression
      generatedNames ==
        IF Truthy(ConditionExpression)
        THEN extractExpAttributeNamesFromString(
               replaceReservedKeywordsFromProjection(join(objectKeys(Item), ", ")))
        ELSE EmptyMap
      mergedNames == JsMerge(generatedNames, Spread(input.expressionAttributeNames))
  IN Ok([TableName |-> input.tableName,
         Item |-> Item,
         ConditionExpression |-> ConditionExpression,
         ReturnValues |-> IF input.returnValues = Undefined THEN "NONE" ELSE input.returnValues,
         ExpressionAttributeNames |-> presentIfNonEmpty(mergedNames),
         ExpressionAttributeValues |-> input.expressionAttributeValues])

\* the condition expressions a caller passes to the Put builder
ConditionExpressions == {Undefined, "", "attribute_not_exists(#size)"}

\* the name maps a caller supplies to the Put builder
PutSuppliedNames ==
  {None, Some(EmptyMap), Some("#size" :> "dimension"), Some("#pk" :> "pk"),
   Some(("#size" :> "dimension") @@ ("#pk" :> "pk"))}

\* the value maps a caller supplies to the Put builder
PutSuppliedValues == {None, Some(EmptyMap), Some(":min" :> "1")}

PutInputs ==
  {[tableName |-> "Users",
    item |-> item,
    conditionExpression |-> condition,
    expressionAttributeNames |-> names,
    expressionAttributeValues |-> values,
    returnValues |-> Undefined] :
     item \in Items, condition \in ConditionExpressions,
     names \in PutSuppliedNames, values \in PutSuppliedValues}

\* the input of the Put builder after the call: both assignments are to
\* commandInput, the object literal that the builder returns
buildPutCommandInputHeld(input) ==
  written([input |-> input], "commandInput", buildPutCommandInput(input).value)

BuildPutCommandInput ==
  /\ Idle
  /\ \E input \in PutInputs :
    /\ call' = [op |-> "buildPutCommandInput", input |-> input]
    /\ ret' = buildPutCommandInput(input)
    /\ held' = buildPutCommandInputHeld(input)
  /\ UNCHANGED <<sent, page>>

(* ------------------------------------------------------------------ *)
(* Query command                                                       *)
(* ------------------------------------------------------------------ *)

\* the first failure of a sequence of outcomes, or Ok(Undefined)
RECURSIVE firstFailure(_)
firstFailure(outcomes) ==
  IF outcomes = <<>> THEN Ok(Undefined)
  ELSE IF ~outcomes[1].ok THEN outcomes[1]
       ELSE firstFailure(Tail(outcomes))

buildQueryCommandInput(input) ==
  LET q == input.queryRequest
      sKeyType == IF q.sKeyType = Undefined THEN "S" ELSE q.sKeyType
      skValue2Type == IF q.skValue2Type = Undefined THEN "S" ELSE q.skValue2Type
      names(ProjectionExpression) ==
        JsMerge(JsMerge(JsMerge("#pk" :> q.pKeyProp,
                                IF Truthy(q.sKeyProp) THEN "#sk" :> q.sKeyProp ELSE EmptyMap),
                        IF Truthy(ProjectionExpression)
                        THEN extractExpAttributeNamesFromString(ProjectionExpression)
                        ELSE EmptyMap),
                Spread(input.extraExpAttributeNames))
      values(pk, sk, sk2) ==
        JsMerge(JsMerge(JsMerge(":pk" :> pk.value,
                                IF Truthy(q.sKey) THEN ":sk" :> sk.value ELSE EmptyMap),
                        IF Truthy(q.skValue2) THEN ":skValue2" :> sk2.value ELSE EmptyMap),
                Spread(input.extraExpAttributeValues))
      finalScanIdxForward ==
        IF q.sorting # Undefined THEN q.sorting = "asc" ELSE input.scanIdxForward # Some(FALSE)
      command(KeyConditionExpression, ProjectionExpression, pk, sk, sk2, ExclusiveStartKey, failure) ==
        IF ~failure.ok THEN failure
        ELSE Ok([TableName |-> input.tableName,
                 IndexName |-> q.indexName,
                 KeyConditionExpression |-> KeyConditionExpression.value,
                 ExpressionAttributeNames |-> presentIfNonEmpty(names(ProjectionExpression)),
                 ExpressionAttributeValues |-> presentIfNonEmpty(values(pk, sk, sk2)),
                 ProjectionExpression |-> ProjectionExpression,
                 ScanIndexForward |-> finalScanIdxForward,
                 FilterExpression |-> input.filterExpression,
                 ExclusiveStartKey |->
                   IF Truthy(q.lastEvaluatedKey) THEN Some(ExclusiveStartKey.value) ELSE None,
                 Limit |-> IF Truthy(q.limit) THEN Some(Number(q.limit)) ELSE None])
      checked(KeyConditionExpression, ProjectionExpression, pk, sk, sk2, ExclusiveStartKey) ==
        command(KeyConditionExpression, ProjectionExpression, pk, sk, sk2, ExclusiveStartKey,
                firstFailure(<<KeyConditionExpression, pk, sk, sk2, ExclusiveStartKey>>))
  IN checked(generateKeyConditionExpression(q.sKey, q.skValue2, q.skComparator),
             IF Truthy(input.projectionExpression)
             THEN replaceReservedKeywordsFromProjection(input.projectionExpression)
             ELSE Undefined,
             parseDynamoKeyValue(q.pKey, q.pKeyType),
             IF Truthy(q.sKey) THEN parseDynamoKeyValue(q.sKey, sKeyType) ELSE Ok(Undefined),
             IF Truthy(q.skValue2) THEN parseDynamoKeyValue(q.skValue2, skValue2Type) ELSE Ok(Undefined),
             IF Truthy(q.lastEvaluatedKey) THEN JSONparse(q.lastEvaluatedKey) ELSE Ok(Undefined))

\* a QueryRequest: every field of queryRequestSchema, undefined when absent
QueryRequest(pKey, pKeyType, pKeyProp, sortKey, indexName, limit, lastEvaluatedKey, sorting) ==
  [pKey |-> pKey, pKeyType |-> pKeyType, pKeyProp |-> pKeyProp,
   sKey |-> sortKey[1], sKeyType |-> sortKey[2], sKeyProp |-> sortKey[3],
   skValue2 |-> sortKey[4], skValue2Type |-> sortKey[5], skComparator |-> sortKey[6],
   indexName |-> indexName, limit |-> limit,
   lastEvaluatedKey |-> lastEvaluatedKey, sorting |-> sorting]

\* no sort-key field
NoSortKey == <<Undefined, Undefined, Undefined, Undefined, Undefined, Undefined>>

\* the sort-key fields of the requests handed to the Query builder, as
\* <<sKey, sKeyType, sKeyProp, skValue2, skValue2Type, skComparator>>
SortKeyFields ==
  {NoSortKey,
   <<"ORDER#1", "S", "sk", Undefined, Undefined, Undefined>>,
   <<"7", "N", "sk", Undefined, Undefined, ">">>,
   <<"ORDER#1", Undefined, "sk", "ORDER#9", Undefined, "between">>,
   <<"ORDER#", "S", "sk", "ORDER#", "S", "begins_with">>,
   <<"ORDER#1", "S", "sk", Undefined, Undefined, "between">>,
   <<"ORDER#1", "X", "sk", Undefined, Undefined, "=">>}

\* the attribute values of a primary key: strings (also with characters that
\* JSON escapes), numbers and binary values (Uint8Array)
KeyAttributeValues ==
  {JStr("U1"), JStr("a\"b"), JStr("x\\y"), JStr("{1,2}"), JNum(12), JNum(0 - 3), JNum(0),
   JBin(<<1, 255>>)}

\* the key-attribute maps of the engine's LastEvaluatedKey, as entries in
\* property order: a partition key, or a partition key and a sort key
KeyMaps ==
  {<< <<"pk", v>> >> : v \in KeyAttributeValues}
  \cup {<< <<"pk", v>>, <<"sk", w>> >> : v, w \in KeyAttributeValues}

\* the object whose properties are the entries
objectOf(entries) ==
  JObj([k \in {entries[i][1] : i \in 1..Len(entries)} |->
          LET i == CHOOSE j \in 1..Len(entries) :
                     entries[j][1] = k /\ \A l \in (j + 1)..Len(entries) : entries[l][1] # k
          IN entries[i][2]])

\* queryRecords: the cursor returned for the engine's LastEvaluatedKey,
\* result.LastEvaluatedKey ? JSON.stringify(result.LastEvaluatedKey) : ''
encodeLastEvaluatedKey(lastKey) ==
  IF lastKey.some THEN JSONstringify([entries |-> lastKey.v]) ELSE ""

\* cursor strings a caller passes that no queryRecords call returned
ForeignCursors ==
  {Undefined, "", "  ", "{not json", "{\"pk\":\"U1\"", "{\"pk\":\"U1\"} x", "{\"pk\":\"U1\",}",
   " {\"pk\" : \"U1\"} ", "\"U1\"", "12", "[1,2]", "null"}

\* the name and value maps a caller adds to a query
QueryExtraNames ==
  {None, Some(EmptyMap), Some("#pk" :> "other"), Some(("#sk" :> "other") @@ ("#size" :> "dimension")),
   Some("#total" :> "total")}

QueryExtraValues ==
  {None, Some(EmptyMap), Some(":pk" :> JStr("other")),
   Some((":sk" :> JStr("other")) @@ (":skValue2" :> JNum(9))), Some(":min" :> JNum(100))}

QueryInput(queryRequest, names, values, projection, scanIdxForward) ==
  [tableName |-> "Orders",
   queryRequest |-> queryRequest,
   extraExpAttributeNames |-> names,
   extraExpAttributeValues |-> values,
   projectionExpression |-> projection,
   scanIdxForward |-> scanIdxForward,
   filterExpression |-> Undefined]

\* the inputs of buildQueryCommandInput: every sort key with every added
\* map; every cursor string with and without a sort key; every limit with
\* every sort direction
QueryInputs ==
  {QueryInput(QueryRequest("U1", "S", "pk", sortKey, Undefined, Undefined, Undefined, Undefined),
              names, values, projection, None) :
     sortKey \in SortKeyFields, names \in QueryExtraNames, values \in QueryExtraValues,
     projection \in {Undefined, "size, total"}}
  \cup
  {QueryInput(QueryRequest("U1", "S", "pk", sortKey, "by-status", Undefined, cursor, Undefined),
              None, None, Undefined, None) :
     sortKey \in {NoSortKey, <<"ORDER#1", "S", "sk", Undefined, Undefined, Undefined>>},
     cursor \in ForeignCursors}
  \cup
  {QueryInput(QueryRequest(pKey, "N", "pk", NoSortKey, Undefined, limit, Undefined, sorting),
              None, None, Undefined, scanIdxForward) :
     pKey \in {"42", "U1"}, limit \in {Undefined, "", "25", "0", "abc"},
     sorting \in {Undefined, "asc", "desc"}, scanIdxForward \in {None, Some(TRUE), Some(FALSE)}}

\* the input of the Query builder after the call: the body has no assignment
buildQueryCommandInputHeld(input) == [input |-> input]

BuildQueryCommandInput ==
  /\ Idle
  /\ \E input \in QueryInputs :
    /\ call' = [op |-> "buildQueryCommandInput", input |-> input, lastKey |-> None]
    /\ ret' = buildQueryCommandInput(input)
    /\ held' = buildQueryCommandInputHeld(input)
  /\ UNCHANGED <<sent, page>>

\* the next page of a query: the caller passes back, as lastEvaluatedKey,
\* the cursor that queryRecords returned for the engine's LastEvaluatedKey
BuildQueryCommandInputNextPage ==
  /\ Idle
  /\ \E lastKey \in KeyMaps, sortKey \in {NoSortKey, <<"ORDER#1", "S", "sk", Undefined, Undefined, Undefined>>} :
    LET input == QueryInput(QueryRequest("U1", "S", "pk", sortKey, Undefined, "25",
                                         encodeLastEvaluatedKey(Some(lastKey)), Undefined),
                            None, None, Undefined, None)
    IN /\ call' = [op |-> "buildQueryCommandInput", input |-> input, lastKey |-> Some(lastKey)]
       /\ ret' = buildQueryCommandInput(input)
       /\ held' = buildQueryCommandInputHeld(input)
  /\ UNCHANGED <<sent, page>>

(* ------------------------------------------------------------------ *)
(* Request validation                                                  *)
(* ------------------------------------------------------------------ *)

\* object[key], undefined when the object has no such property
prop(object, key) == IF key \in DOMAIN object THEN object[key] ELSE Undefined

\* b ?? a: the operands of ?? written in the wrong order
nullish_Swapped(a, b) == IF b = Undefined THEN a ELSE b

\* a ?? b
nullish(a, b) == IF a = Undefined THEN b ELSE a

\* throw new CustomError(message, 400)
BadRequest(message) == [ok |-> FALSE, value |-> Undefined, error |-> message, statusCode |-> 400]

\* the fields of queryRequestSchema, in the order of the schema
RequiredFields == <<"pKey", "pKeyType", "pKeyProp">>

OptionalFields ==
  <<"sKey", "sKeyType", "sKeyProp", "skValue2", "skValue2Type", "skComparator", "indexName",
    "limit", "lastEvaluatedKey", "sorting">>

\* the members of a sequence that are in a set, in order
RECURSIVE selectFrom(_, _)
selectFrom(seq, kept) ==
  IF seq = <<>> THEN <<>>
  ELSE (IF seq[1] \in kept THEN <<seq[1]>> ELSE <<>>) \o selectFrom(Tail(seq), kept)

\* the issues of the object schema: a required string that is undefined
schemaIssues(candidate) ==
  LET missing == selectFrom(RequiredFields, {field \in DOMAIN candidate : candidate[field] = Undefined})
  IN [i \in 1..Len(missing) |-> [path |-> missing[i], message |-> "Required"]]

\* the issues superRefine adds: with a comparator, the sort-key value,
\* property and type must be present
refinementIssues(data) ==
  IF Truthy(data.skComparator)
  THEN LET missing == selectFrom(<<"sKey", "sKeyProp", "sKeyType">>,
                                 {field \in DOMAIN data : ~Truthy(data[field])})
       IN [i \in 1..Len(missing) |->
             [path |-> missing[i],
              message |-> missing[i] \o " is required when skComparator is present"]]
  ELSE <<>>

\* queryRequestSchema.safeParse(candidate): the refinement runs only when
\* the object schema has raised no issue
safeParse(candidate) ==
  IF schemaIssues(candidate) # <<>>
  THEN [success |-> FALSE, issues |-> schemaIssues(candidate)]
  ELSE IF refinementIssues(candidate) # <<>>
       THEN [success |-> FALSE, issues |-> refinementIssues(candidate)]
       ELSE [success |-> TRUE, data |-> candidate]

failBadRequest(prefix, issues) ==
  LET errorDetails == join([i \in 1..Len(issues) |-> issues[i].path \o ": " \o issues[i].message], ", ")
  IN BadRequest(prefix \o " " \o errorDetails)

\* parseOrThrow that returns the candidate without looking at parsed.success
parseOrThrow_Unchecked(candidate, prefix) == Ok(candidate)

parseOrThrow(candidate, prefix) ==
  LET parsed == safeParse(candidate)
  IN IF ~parsed.success THEN failBadRequest(prefix, parsed.issues) ELSE Ok(parsed.data)

\* normalizeQS(qs): values trimmed, blank values set to undefined (the
\* property stays), a numeric limit clamped to 1..100, sorting lower-cased
\* and set to undefined unless asc or desc
normalizeQS(qs) ==
  LET trimmed == [k \in DOMAIN qs |-> trim(qs[k])]
      norm == [k \in DOMAIN qs |-> IF trimmed[k] = "" THEN Undefined ELSE trimmed[k]]
      limit == IF Truthy(prop(norm, "limit")) /\ Number(norm["limit"]) # NaN
               THEN "limit" :> String(clamp(Number(norm["limit"]).num))
               ELSE EmptyMap
      sorting == IF Truthy(prop(norm, "sorting"))
                 THEN LET s == toLowerCase(norm["sorting"])
                      IN "sorting" :> (IF s # "asc" /\ s # "desc" THEN Undefined ELSE s)
                 ELSE EmptyMap
  IN JsMerge(JsMerge(norm, limit), sorting)

\* a candidate object as the record of the schema's fields
Candidate(indexName, pKey, pKeyType, pKeyProp, limit, sKey, sKeyType, sKeyProp, skValue2, skValue2Type, skComparator, lastEvaluatedKey, sorting) ==
  [pKey |-> pKey, pKeyType |-> pKeyType, pKeyProp |-> pKeyProp,
   sKey |-> sKey, sKeyType |-> sKeyType, sKeyProp |-> sKeyProp,
   skValue2 |-> skValue2, skValue2Type |-> skValue2Type, skComparator |-> skComparator,
   indexName |-> indexName, limit |-> limit,
   lastEvaluatedKey |-> lastEvaluatedKey, sorting |-> sorting]

\* value when it is truthy, else no property: ...(value && { key: value })
whenTruthy(value) == IF Truthy(value) THEN value ELSE Undefined

extractQueryParamsFromEvent(event, query) ==
  LET raw == Spread(event.queryStringParameters)
      queryParams == normalizeQS(raw)
      keys == DOMAIN queryParams
      limit == prop(queryParams, "limit")
      sorting == prop(queryParams, "sorting")
      isOnlyLimitOrSorting ==
        \/ Cardinality(keys) = 1 /\ (Truthy(limit) \/ Truthy(sorting))
        \/ Cardinality(keys) = 2 /\ Truthy(limit) /\ Truthy(sorting)
      hasNonEmptyPKey == Truthy(prop(queryParams, "pKey"))
      get(key) == prop(queryParams, key)
  IN IF keys = {}
     THEN parseOrThrow(query, "Invalid default query!")
     ELSE IF isOnlyLimitOrSorting
     THEN parseOrThrow([query EXCEPT !.limit = IF Truthy(limit) THEN limit ELSE @,
                                     !.sorting = IF Truthy(sorting) THEN sorting ELSE @],
                       "Bad request!")
     ELSE IF ~hasNonEmptyPKey /\ get("index") = query.indexName
     THEN parseOrThrow(
            Candidate(query.indexName, query.pKey, query.pKeyType, query.pKeyProp,
                      nullish(limit, nullish(query.limit, "20")),
                      nullish(get("sKey"), query.sKey),
                      nullish(get("sKeyType"), query.sKeyType),
                      nullish(get("sKeyProp"), query.sKeyProp),
                      nullish(get("skValue2"), query.skValue2),
                      nullish(get("skValue2Type"), query.skValue2Type),
                      nullish(get("skComparator"), query.skComparator),
                      nullish(get("lastEvaluatedKey"), query.lastEvaluatedKey),
                      nullish(sorting, query.sorting)),
            "Bad request!")
     ELSE parseOrThrow(
            Candidate(nullish(get("index"), query.indexName),
                      get("pKey"), get("pKeyType"), get("pKeyProp"),
                      nullish(limit, "20"),
                      whenTruthy(get("sKey")), whenTruthy(get("sKeyType")),
                      whenTruthy(get("sKeyProp")), whenTruthy(get("skValue2")),
                      whenTruthy(get("skValue2Type")), whenTruthy(get("skComparator")),
                      whenTruthy(get("lastEvaluatedKey")), whenTruthy(sorting)),
            "Bad request!")


\* the default requests a handler passes: the handler's own default (an
\* index and a partition key), a table query with sort-key fields, a limit,
\* a direction and a cursor, an index query with an unclamped limit, and
\* two invalid defaults (no partition key; a comparator with no sort key),
\* and a default whose direction is written in upper case
DefaultQueries ==
  {Candidate("by-status", "PENDING", "S", "status", Undefined, Undefined, Undefined, Undefined,
             Undefined, Undefined, Undefined, Undefined, Undefined),
   Candidate(Undefined, "U1", "S", "pk", "50", "ORDER#", "S", "sk", "ORDER#9", "S", "between",
             "{\"pk\":\"U1\"}", "desc"),
   Candidate("by-status", "PENDING", "S", "status", "500", "2024", "S", "createdAt", Undefined,
             Undefined, ">", Undefined, "asc"),
   Candidate("by-status", Undefined, "S", "status", Undefined, Undefined, Undefined, Undefined,
             Undefined, Undefined, Undefined, Undefined, Undefined),
   Candidate("by-status", "PENDING", "S", "status", "10", Undefined, Undefined, "createdAt",
             Undefined, Undefined, "=", Undefined, Undefined),
   Candidate("by-status", "PENDING", "S", "status", "10", Undefined, Undefined, Undefined,
             Undefined, Undefined, Undefined, Undefined, "ASC")}

\* what the raw query string says about the index
RawIndexes == {EmptyMap, "index" :> "by-status", "index" :> "other"}

\* ... about the partition key
RawPartitionKeys ==
  {EmptyMap,
   ("pKey" :> "U2") @@ ("pKeyType" :> "S") @@ ("pKeyProp" :> "pk2"),
   "pKey" :> "  ",
   ("pKeyType" :> "N") @@ ("pKeyProp" :> "pk2"),
   "pKey" :> "U2"}

\* ... about the sort key, the cursor and other things
RawSortKeys ==
  {EmptyMap,
   "sKey" :> "A",
   "sKey" :> " ",
   ("sKey" :> "A") @@ ("sKeyType" :> "N") @@ ("sKeyProp" :> "sk2"),
   "skComparator" :> "=",
   ("skComparator" :> ">") @@ ("sKey" :> "A") @@ ("sKeyType" :> "N") @@ ("sKeyProp" :> "sk2"),
   ("skComparator" :> "begins_with") @@ ("sKey" :> "A") @@ ("sKeyType" :> "S") @@ ("sKeyProp" :> "sk2"),
   ("skComparator" :> "begins_with") @@ ("sKey" :> "A") @@ ("sKeyType" :> "S")
     @@ ("sKeyProp" :> "sk2") @@ ("skValue2" :> "B") @@ ("skValue2Type" :> "S")
     @@ ("lastEvaluatedKey" :> "{\"pk2\":\"U2\"}"),
   "page" :> "2"}

\* ... about the limit
RawLimits ==
  {EmptyMap, "limit" :> "5", "limit" :> " 0 ", "limit" :> "500", "limit" :> "abc", "limit" :> " "}

\* ... about the sort direction
RawSortings == {EmptyMap, "sorting" :> "DESC", "sorting" :> "sideways", "sorting" :> ""}

\* event.queryStringParameters: null, or the raw parameters
RawParameters ==
  {None}
  \cup {Some(index @@ partitionKey @@ sortKey @@ limit @@ sorting) :
          index \in RawIndexes, partitionKey \in RawPartitionKeys, sortKey \in RawSortKeys,
          limit \in RawLimits, sorting \in RawSortings}

\* the object that normalizeQS assigns to, were it the parameter itself
normalizeQSTarget_InPlace == "qs"

\* the object that normalizeQS assigns to: norm, made by Object.fromEntries
normalizeQSTarget == "norm"

\* the event and the default request after the call: the raw parameter map
\* goes through normalizeQS, the default request is only read and spread
extractQueryParamsFromEventHeld(event, query) ==
  LET raw == event.queryStringParameters
  IN [event |-> IF raw.some
                THEN [queryStringParameters |->
                        Some(written([qs |-> raw.v], normalizeQSTarget, normalizeQS(raw.v)).qs)]
                ELSE event,
      query |-> query]

ExtractQueryParamsFromEvent ==
  /\ Idle
  /\ \E queryStringParameters \in RawParameters, query \in DefaultQueries :
    LET event == [queryStringParameters |-> queryStringParameters]
    IN /\ call' = [op |-> "extractQueryParamsFromEvent", event |-> event, query |-> query]
       /\ ret' = extractQueryParamsFromEvent(event, query)
       /\ held' = extractQueryParamsFromEventHeld(event, query)
  /\ UNCHANGED <<sent, page>>

(* ------------------------------------------------------------------ *)
(* Typed key values: calls                                             *)
(* ------------------------------------------------------------------ *)

\* the raw strings handed to parseDynamoKeyValue: integers, words for
\* booleans in several letter cases, JSON texts, malformed JSON texts and
\* comma-separated lists (with empty, blank and non-numeric items)
RawKeys ==
  {"42", "-7", "0", " 5 ", "", "abc", "true", "TRUE", "True", "false", "yes", "null",
   "{bad", "{\"a\":1}", "[1,2]", "[1,", "1,,2", "1, x,3", "a,b", "4, 5 ,6", ",", "x"}

\* the type tags: the nine of the switch, and tags outside it
KeyTypes == {"S", "N", "BOOL", "NULL", "M", "L", "SS", "NS", "BS", "X", "s", "", "B"}

ParseDynamoKeyValue ==
  /\ Idle
  /\ \E key \in RawKeys, keyType \in KeyTypes :
    /\ call' = [op |-> "parseDynamoKeyValue", key |-> key, keyType |-> keyType]
    /\ ret' = parseDynamoKeyValue(key, keyType)
  /\ UNCHANGED <<sent, page, held>>

(* ------------------------------------------------------------------ *)
(* Record layer: one storage-engine call per function                  *)
(* ------------------------------------------------------------------ *)

\* throw new CustomError(message, statusCode): an Error with a status code
\* (500 when the constructor is given none)
CustomError(message, statusCode) ==
  [ok |-> FALSE, value |-> Undefined, error |-> message, statusCode |-> statusCode]

\* a thrown value that is not an Error
ThrownValue(v) == [ok |-> FALSE, value |-> Undefined, thrown |-> v]

\* error instanceof Error
IsError(outcome) == "error" \in DOMAIN outcome

\* error instanceof CustomError
IsCustomError(outcome) == "statusCode" \in DOMAIN outcome

\* error instanceof ZodError
IsZodError(outcome) == "issues" \in DOMAIN outcome

\* a catch block that returns normally instead of throwing
rethrow_Swallowed(error, message) == Ok(Undefined)

\* throw error instanceof Error ? error : new CustomError(message)
rethrow(error, message) == IF IsError(error) THEN error ELSE CustomError(message, 500)

RecordOps == {"getRecordByKey", "queryRecords", "createRecord", "updateRecord"}

\* the message of the CustomError that wraps a thrown value
UnexpectedMessage ==
  [op \in RecordOps |->
     CASE op = "getRecordByKey" -> "Unexpected error while retrieving record."
       [] op = "queryRecords" -> "Unexpected error while querying records."
       [] op = "createRecord" -> "Unexpected error while creating record."
       [] op = "updateRecord" -> "Unexpected error while updating record."]

\* what docClient.send rejects with: a service exception (an Error), or a
\* value that is not an Error
EngineFailures == {Err("ProvisionedThroughputExceededException"), ThrownValue("socket hang up")}

\* the LastEvaluatedKey values of the engine's pages
EngineKeys ==
  {<< <<"pk", JStr("U1")>> >>,
   << <<"pk", JStr("U1")>>, <<"sk", JNum(12)>> >>,
   << <<"pk", JBin(<<1, 255>>)>> >>}

\* what docClient.send resolves with, per function
EngineResults ==
  [op \in RecordOps |->
     CASE op = "getRecordByKey" ->
            {[Item |-> None], [Item |-> Some(<< <<"pk", "USER#1">>, <<"email", "a@b.c">> >>)]}
       [] op = "queryRecords" ->
            {[Items |-> items, LastEvaluatedKey |-> lastKey] :
               items \in {None, Some(<< <<"pk", "U1">> >>)},
               lastKey \in {None} \cup {Some(k) : k \in EngineKeys}}
       [] op = "createRecord" -> {[Attributes |-> None]}
       [] op = "updateRecord" ->
            {[Attributes |-> None], [Attributes |-> Some(<< <<"email", "new">> >>)]}]

\* what the function returns for the engine's result
recordResult(op, input, result) ==
  CASE op = "getRecordByKey" -> Ok(result.Item)
    [] op = "queryRecords" ->
         Ok([lastEvaluatedKey |-> IF result.LastEvaluatedKey.some THEN result.LastEvaluatedKey.v ELSE <<>>,
             items |-> IF result.Items.some THEN result.Items.v ELSE <<>>])
    [] op = "createRecord" -> Ok(input.item)
    [] op = "updateRecord" -> Ok(result.Attributes)

\* the try block up to the await: the command is built, and sent when the
\* builder has returned; a builder's Error is caught and thrown again
sendCommand(op, input, command) ==
  /\ call' = [op |-> op, input |-> input, pc |-> IF command.ok THEN "awaiting" ELSE "returned",
              response |-> None]
  /\ sent' = IF command.ok THEN Append(sent, command.value) ELSE sent
  /\ ret' = IF command.ok THEN Ok(Undefined) ELSE rethrow(command, UnexpectedMessage[op])

\* the inputs of the record layer: for each function, inputs whose command
\* is assembled and (but for Get and Put, whose builders never fail) inputs
\* whose assembly fails
RecordGetInputs ==
  {input \in GetInputs :
     input.projectionExpression \in {Undefined, "", "size", "size, color"}}

RecordPutInputs ==
  {input \in PutInputs :
     /\ input.item \in {<<>>, << <<"size", FieldValue(1)>> >>}
     /\ input.expressionAttributeValues # Some(EmptyMap)}

RecordUpdateInputs ==
  {input \in UpdateInputs :
     /\ input.item \in {None, Some(<<>>), Some(<< <<"email", FieldValue(1)>> >>)}
     /\ input.expressionAttributeNames = None
     /\ input.extraExpAttributeNames = None}

RecordQueryInputs ==
  {input \in QueryInputs :
     /\ input.extraExpAttributeNames = None
     /\ input.extraExpAttributeValues = None
     /\ input.scanIdxForward = None}

GetRecordByKey ==
  /\ Idle
  /\ \E input \in RecordGetInputs : sendCommand("getRecordByKey", input, buildGetCommandInput(input))
  /\ UNCHANGED <<page, held>>

CreateRecord ==
  /\ Idle
  /\ \E input \in RecordPutInputs : sendCommand("createRecord", input, buildPutCommandInput(input))
  /\ UNCHANGED <<page, held>>

UpdateRecord ==
  /\ Idle
  /\ \E input \in RecordUpdateInputs : sendCommand("updateRecord", input, buildUpdateCommandInput(input))
  /\ UNCHANGED <<page, held>>

\* the first page of a query; a caller whose query fails has no page
QueryRecords ==
  /\ Idle
  /\ \E input \in RecordQueryInputs :
    LET send(command) ==
          /\ sendCommand("queryRecords", input, command)
          /\ page' = IF command.ok THEN page ELSE None
    IN send(buildQueryCommandInput(input))
  /\ UNCHANGED held

\* how a caller hands the lastEvaluatedKey object that queryRecords returned
\* to the string field queryRequest.lastEvaluatedKey: as its JSON text, or
\* as the object itself, which the truthiness test takes as true and
\* JSON.parse converts with String()
SupplyModes == {"stringified", "object"}

suppliedBack(returned, mode) ==
  IF mode = "stringified" THEN JSONstringify([entries |-> returned]) ELSE "[object Object]"

\* the next page of a paginating caller: the query is repeated with the
\* lastEvaluatedKey that the previous queryRecords call returned
QueryRecordsNextPage ==
  /\ Idle
  /\ page.some
  /\ \E mode \in SupplyModes :
    LET send(input, command) ==
          /\ call' = [op |-> "queryRecords", input |-> input,
                      pc |-> IF command.ok THEN "awaiting" ELSE "returned",
                      response |-> None, previous |-> page.v]
          /\ sent' = IF command.ok THEN Append(sent, command.value) ELSE sent
          /\ ret' = IF command.ok THEN Ok(Undefined) ELSE rethrow(command, UnexpectedMessage["queryRecords"])
          /\ page' = IF command.ok THEN page ELSE None
        next(input) == send(input, buildQueryCommandInput(input))
    IN next(QueryInput(QueryRequest("U1", "S", "pk", NoSortKey, Undefined, "25",
                                    suppliedBack(page.v.lastEvaluatedKey, mode), Undefined),
                       None, None, Undefined, None))
  /\ UNCHANGED held

\* the awaited docClient.send settles: the function returns what it makes
\* of the result, or its catch block throws
EngineResponds ==
  /\ Awaiting
  /\ \E outcome \in {Ok(result) : result \in EngineResults[call.op]} \cup EngineFailures :
    /\ ret' = IF outcome.ok
              THEN recordResult(call.op, call.input, outcome.value)
              ELSE rethrow(outcome, UnexpectedMessage[call.op])
    /\ page' = IF call.op # "queryRecords" THEN page
               ELSE IF outcome.ok
                    THEN Some([lastEvaluatedKey |-> recordResult(call.op, call.input, outcome.value).value.lastEvaluatedKey,
                               LastEvaluatedKey |-> outcome.value.LastEvaluatedKey])
                    ELSE None
    /\ call' = [call EXCEPT !.pc = "returned", !.response = Some(outcome)]
  /\ UNCHANGED <<sent, held>>

(* ------------------------------------------------------------------ *)
(* HTTP handler wrapper                                                *)
(* ------------------------------------------------------------------ *)

\* formatApiResponse(response, statusCode): the body is the JSON text of
\* the response, written [stringified |-> response]
formatApiResponse(response, statusCode) ==
  [statusCode |-> statusCode,
   body |-> [stringified |-> response],
   headers |-> ("Access-Control-Allow-Headers" :> "*") @@ ("Access-Control-Allow-Origin" :> "*")
               @@ ("Access-Control-Allow-Methods" :> "OPTIONS,POST,GET,PUT,DELETE")]

handleZodError(error) ==
  LET missingFields == [i \in 1..Len(error.issues) |->
                          IF error.issues[i].path = "" THEN "unknown field" ELSE error.issues[i].path]
  IN formatApiResponse([message |-> "Missing or invalid fields: " \o join(missingFields, ", ")], 400)

handleApiFuncError(error) ==
  IF IsCustomError(error) THEN formatApiResponse([message |-> error.error], error.statusCode)
  ELSE IF IsZodError(error) THEN handleZodError(error)
  ELSE IF IsError(error) THEN formatApiResponse([message |-> error.error], 500)
  ELSE formatApiResponse([message |-> "Unexpected error occurred"], 500)

\* the functions of the core that a handler's callback calls
CallbackOps ==
  RecordOps \cup {"extractQueryParamsFromEvent", "generateKeyConditionExpression",
                  "parseDynamoKeyValue", "buildQueryCommandInput"}

\* the handler made by createHttpHandler: its callback has called the core,
\* and returned what the core returned or thrown what it threw
CreateHttpHandler ==
  /\ call.op \in CallbackOps
  /\ ~Awaiting
  /\ call' = [op |-> "createHttpHandler", callback |-> call, outcome |-> ret]
  /\ ret' = Ok(IF ret.ok THEN formatApiResponse(ret.value, 200) ELSE handleApiFuncError(ret))
  /\ UNCHANGED <<sent, page, held>>

(* ------------------------------------------------------------------ *)
(* Specification                                                       *)
(* ------------------------------------------------------------------ *)

Init ==
  /\ call = NoCall
  /\ ret = Ok(Undefined)
  /\ sent = <<>>
  /\ page = None
  /\ held = NoObjects

\* the caller has taken the outcome of its call; the next call can be made
Complete ==
  /\ ~Idle
  /\ ~Awaiting
  /\ call' = NoCall
  /\ ret' = Ok(Undefined)
  /\ sent' = <<>>
  /\ held' = NoObjects
  /\ UNCHANGED page

Next ==
  \/ GenerateKeyConditionExpression
  \/ BuildUpdateCommandInput
  \/ BuildUpdateCommandInputLegacy
  \/ BuildGetCommandInput
  \/ BuildPutCommandInput
  \/ BuildQueryCommandInput
  \/ BuildQueryCommandInputNextPage
  \/ ExtractQueryParamsFromEvent
  \/ ParseDynamoKeyValue
  \/ GetRecordByKey
  \/ CreateRecord
  \/ UpdateRecord
  \/ QueryRecords
  \/ QueryRecordsNextPage
  \/ EngineResponds
  \/ CreateHttpHandler
  \/ Complete

Spec == Init /\ [][Next]_vars

\* the calls of the key-condition builder alone
NextKeyCondition ==
  \/ GenerateKeyConditionExpression
  \/ Complete

SpecKeyCondition == Init /\ [][NextKeyCondition]_vars

\* the calls of the update builders alone
NextUpdate ==
  \/ BuildUpdateCommandInput
  \/ BuildUpdateCommandInputLegacy
  \/ Complete

SpecUpdate == Init /\ [][NextUpdate]_vars

\* the calls that alias reserved words: the Get builder (projection lists)
\* and the update builder (generated assignments)
NextAliasing ==
  \/ BuildGetCommandInput
  \/ BuildUpdateCommandInput
  \/ Complete

SpecAliasing == Init /\ [][NextAliasing]_vars

\* the calls of the Query builder alone
NextQuery ==
  \/ BuildQueryCommandInput
  \/ BuildQueryCommandInputNextPage
  \/ Complete

SpecQuery == Init /\ [][NextQuery]_vars

\* the calls of the four command builders
NextAssembly ==
  \/ BuildGetCommandInput
  \/ BuildPutCommandInput
  \/ BuildQueryCommandInput
  \/ BuildUpdateCommandInput
  \/ Complete

SpecAssembly == Init /\ [][NextAssembly]_vars

\* the calls of the request validator alone
NextValidation ==
  \/ ExtractQueryParamsFromEvent
  \/ Complete

SpecValidation == Init /\ [][NextValidation]_vars

\* the calls of the command builders and of the request validator, in any
\* order: the calls that concurrent requests make
NextPure ==
  \/ BuildGetCommandInput
  \/ BuildPutCommandInput
  \/ BuildQueryCommandInput
  \/ BuildUpdateCommandInput
  \/ ExtractQueryParamsFromEvent
  \/ Complete

SpecPure == Init /\ [][NextPure]_vars

\* the calls of the typed-value parser alone
NextKeyValue ==
  \/ ParseDynamoKeyValue
  \/ Complete

SpecKeyValue == Init /\ [][NextKeyValue]_vars

\* the calls of the record layer and the engine's responses
NextRecords ==
  \/ GetRecordByKey
  \/ CreateRecord
  \/ UpdateRecord
  \/ QueryRecords
  \/ EngineResponds
  \/ Complete

SpecRecords == Init /\ [][NextRecords]_vars

\* a caller that pages through a query
NextPagination ==
  \/ QueryRecords
  \/ QueryRecordsNextPage
  \/ EngineResponds
  \/ Complete

SpecPagination == Init /\ [][NextPagination]_vars

\* handlers made by createHttpHandler, whose callbacks call the validator,
\* the key-condition builder, the typed-value parser, the Query builder
\* and getRecordByKey
NextHttp ==
  \/ ExtractQueryParamsFromEvent
  \/ GenerateKeyConditionExpression
  \/ ParseDynamoKeyValue
  \/ BuildQueryCommandInput
  \/ GetRecordByKey
  \/ EngineResponds
  \/ CreateHttpHandler
  \/ Complete

SpecHttp == Init /\ [][NextHttp]_vars

(* ------------------------------------------------------------------ *)
(* Properties of the key-condition expression                          *)
(* ------------------------------------------------------------------ *)

IsKeyConditionCall == call.op = "generateKeyConditionExpression"

\* the comparator tokens that stand for each ordering operator (none given
\* stands for '=')
TokensOf(symbol) ==
  CASE symbol = "=" -> {Undefined, "=", "EQUAL", "equal", "Equal"}
    [] symbol = "<" -> {"<", "LESS_THAN", "less_than"}
    [] symbol = ">" -> {">", "GREATER_THAN", "Greater_Than"}
    [] symbol = "<=" -> {"<=", "LESS_THAN_OR_EQUAL", "less_than_or_equal"}
    [] symbol = ">=" -> {">=", "GREATER_THAN_OR_EQUAL", "greater_than_or_equal"}

OrderingSymbols == {"=", "<", ">", "<=", ">="}

BeginsWithTokens == {"BEGINS_WITH", "begins_with", "Begins_With"}

BetweenTokens == {"BETWEEN", "between", "Between"}

\* the tokens that name no comparator
UnknownTokens ==
  ComparatorTokens \ (UNION {TokensOf(symbol) : symbol \in OrderingSymbols}
                      \cup BeginsWithTokens \cup BetweenTokens)

\* C1: whenever generateKeyConditionExpression returns, the result begins
\* with `#pk = :pk`; with no sort-key value it is exactly `#pk = :pk`; with a
\* sort-key value and a comparator that stands for =, <, >, <= or >= (none
\* given: =) it is exactly `#pk = :pk AND #sk <op> :sk`.
C1_KeyConditionShape ==
  (IsKeyConditionCall /\ ret.ok) =>
    /\ startsWith(ret.value, "#pk = :pk")
    /\ ~Truthy(call.sortKey) => ret.value = "#pk = :pk"
    /\ \A symbol \in OrderingSymbols :
         (Truthy(call.sortKey) /\ call.skComparator \in TokensOf(symbol))
           => ret.value = "#pk = :pk AND #sk " \o symbol \o " :sk"

\* C1's case: a sort key with a comparator key in lower case, and a call with no sort key
C1_Witness ==
  /\ IsKeyConditionCall
  /\ call.sortKey = "ORDER#"
  /\ call.skComparator = "less_than_or_equal"
  /\ ret = Ok("#pk = :pk AND #sk <= :sk")

\* the outcome of the same call with another comparator token
OutcomeWith(token) == generateKeyConditionExpression(call.sortKey, call.skValue2, token)

\* C2: a comparator token that names no comparator makes the build fail,
\* whether or not the sort-key value and the second range value are present;
\* and two tokens that differ only in letter case give the same outcome.
C2_UnknownComparatorFails ==
  IsKeyConditionCall =>
    /\ call.skComparator \in UnknownTokens => ~ret.ok
    /\ \A token \in ComparatorTokens \ {Undefined} :
         (call.skComparator # Undefined /\ toLowerCase(token) = toLowerCase(call.skComparator))
           => /\ OutcomeWith(token).ok = ret.ok
              /\ OutcomeWith(token).value = ret.value

\* C3: with comparator begins-with, a present sort-key value gives exactly
\* `#pk = :pk AND begins_with(#sk, :skValue2)`, and a missing sort-key value
\* makes the build fail.
C3_BeginsWith ==
  (IsKeyConditionCall /\ call.skComparator \in BeginsWithTokens) =>
    IF Truthy(call.sortKey)
    THEN ret = Ok("#pk = :pk AND begins_with(#sk, :skValue2)")
    ELSE ~ret.ok

\* C4: with comparator between, a present sort-key value and second range
\* value give exactly `#pk = :pk AND #sk BETWEEN :sk AND :skValue2`; if either
\* is missing the build fails.
C4_Between ==
  (IsKeyConditionCall /\ call.skComparator \in BetweenTokens) =>
    IF Truthy(call.sortKey) /\ Truthy(call.skValue2)
    THEN ret = Ok("#pk = :pk AND #sk BETWEEN :sk AND :skValue2")
    ELSE ~ret.ok

(* ------------------------------------------------------------------ *)
(* Properties of the update command                                    *)
(* ------------------------------------------------------------------ *)

IsUpdateCall == call.op = "buildUpdateCommandInput"

IsLegacyUpdateCall == call.op = "buildUpdateCommandInputLegacy"

\* an explicit update expression was supplied
ExplicitMode == Truthy(call.input.updateExpression)

\* no update expression, and an item with at least one field
GeneratedMode ==
  /\ ~Truthy(call.input.updateExpression)
  /\ call.input.item.some
  /\ Len(call.input.item.v) > 0

\* a merged with b, b's entries first
MergedWith(a, b) ==
  [k \in DOMAIN a \cup DOMAIN b |-> IF k \in DOMAIN b THEN b[k] ELSE a[k]]

\* the value map supplied from outside: expressionAttributeValues merged
\* with extraExpressionAttributeValues
ExternalValues ==
  MergedWith(Spread(call.input.expressionAttributeValues),
             Spread(call.input.extraExpressionAttributeValues))

\* the name map supplied from outside
ExternalNames ==
  MergedWith(Spread(call.input.expressionAttributeNames),
             Spread(call.input.extraExpAttributeNames))

\* the fields of the item and their values, in the item's order
ItemField(i) == call.input.item.v[i][1]

ItemValue(i) == call.input.item.v[i][2]

ItemIndexes == 1..Len(call.input.item.v)

\* the assignments of the returned SET clause
Assignments ==
  IF startsWith(ret.value.UpdateExpression, "SET ")
  THEN split(SubSeq(ret.value.UpdateExpression, 5, Len(ret.value.UpdateExpression)), ", ")
  ELSE <<>>

\* a name is an entry of the reserved-word table as written
IsTableEntry(name) == \E k \in 1..Len(RESERVED_KEYWORDS) : RESERVED_KEYWORDS[k] = name

\* a name is an entry of the reserved-word table, letter case ignored
IsReservedWord(name) == IsTableEntry(toLowerCase(name))

\* C5: in generated mode with no supplied value placeholders, the
\* UpdateExpression is `SET ` followed by one `field = :field` per item field,
\* joined by `, `, in the item's order (a reserved field name as its `#`
\* alias), and ExpressionAttributeValues maps each `:field` to the field's value.
C5_GeneratedSetClause ==
  (IsUpdateCall /\ GeneratedMode /\ DOMAIN ExternalValues = {}) =>
    /\ ret.ok
    /\ ret.value.UpdateExpression =
         "SET " \o join([i \in ItemIndexes |->
                           (IF IsTableEntry(ItemField(i)) THEN "#" ELSE "")
                             \o ItemField(i) \o " = :" \o ItemField(i)], ", ")
    /\ ret.value.ExpressionAttributeValues.some
    /\ ret.value.ExpressionAttributeValues.v =
         [k \in {":" \o ItemField(i) : i \in ItemIndexes} |->
            ItemValue(CHOOSE i \in ItemIndexes : k = ":" \o ItemField(i))]

\* the n-th disambiguated placeholder of a field
SuffixedKey(field, n) == ":" \o field \o "_update_" \o numberToString(n)

\* the placeholder C6 gives a field: `:field`, or on a collision with the
\* supplied map `:field_update_n` for the least n >= 1 that is free in it
ExpectedKey(field) ==
  IF (":" \o field) \notin DOMAIN ExternalValues
  THEN ":" \o field
  ELSE SuffixedKey(field,
         CHOOSE n \in 1..(Cardinality(DOMAIN ExternalValues) + 1) :
           /\ SuffixedKey(field, n) \notin DOMAIN ExternalValues
           /\ \A m \in 1..(n - 1) : SuffixedKey(field, m) \in DOMAIN ExternalValues)

\* C6: in generated mode a field whose `:field` is a key of the supplied
\* value map gets `:field_update_n` for the least n >= 1 that is no key of
\* that map, a field with no collision gets `:field`, and every supplied
\* entry keeps its value in the output.
C6_CollisionPlaceholders ==
  (IsUpdateCall /\ GeneratedMode) =>
    /\ ret.ok
    /\ Len(Assignments) = Len(call.input.item.v)
    /\ \A i \in ItemIndexes : endsWith(Assignments[i], " = " \o ExpectedKey(ItemField(i)))
    /\ \A k \in DOMAIN ExternalValues :
         /\ ret.value.ExpressionAttributeValues.some
         /\ k \in DOMAIN ret.value.ExpressionAttributeValues.v
         /\ ret.value.ExpressionAttributeValues.v[k] = ExternalValues[k]

\* C6's case: `:email` and `:email_update_1` are both taken, so the field
\* email is given `:email_update_2`
C6_Witness ==
  /\ IsUpdateCall /\ GeneratedMode /\ ret.ok
  /\ {":email", ":email_update_1"} \subseteq DOMAIN ExternalValues
  /\ \E i \in ItemIndexes :
       /\ ItemField(i) = "email"
       /\ Assignments[i] = "email = :email_update_2"
  /\ ret.value.ExpressionAttributeValues.v[":email"] = "old"

\* C7: with no update expression and an absent or empty item the builder
\* fails and returns no command; no returned command has the bare
\* UpdateExpression `SET `.
C7_EmptyUpdateFails ==
  (IsUpdateCall \/ IsLegacyUpdateCall) =>
    /\ (~Truthy(call.input.updateExpression)
          /\ (~call.input.item.some \/ Len(call.input.item.v) = 0)) => ~ret.ok
    /\ ret.ok => ret.value.UpdateExpression # "SET "

\* C8: in explicit mode the UpdateExpression is the supplied string
\* unchanged, also when an item is supplied, and the output name and value
\* maps are exactly the supplied maps merged with the extras.
C8_ExplicitPassThrough ==
  (IsUpdateCall /\ ExplicitMode) =>
    /\ ret.ok
    /\ ret.value.UpdateExpression = call.input.updateExpression
    /\ Spread(ret.value.ExpressionAttributeNames) = ExternalNames
    /\ Spread(ret.value.ExpressionAttributeValues) = ExternalValues

\* C8's case: an explicit expression on a reserved word, an item supplied
\* too, and a name supplied twice
C8_Witness ==
  /\ IsUpdateCall /\ ExplicitMode /\ ret.ok
  /\ call.input.item.some /\ Len(call.input.item.v) = 1
  /\ ret.value.UpdateExpression = "SET size = :size"
  /\ ret.value.ExpressionAttributeNames = Some("#size" :> "width")
  /\ ret.value.ExpressionAttributeValues = Some(":email" :> "extra")

(* ------------------------------------------------------------------ *)
(* Properties of reserved-word aliasing                                *)
(* ------------------------------------------------------------------ *)

IsGetCall == call.op = "buildGetCommandInput"

\* a Get call with a projection list
HasProjection == IsGetCall /\ Truthy(call.input.projectionExpression)

\* the names of a projection list: what stands between the commas, without
\* the white space around it
ListedNames(projection) ==
  LET pieces == split(projection, ",") IN [n \in 1..Len(pieces) |-> trim(pieces[n])]

\* the returned command maps the alias of a name to the name (or to what the
\* caller supplied for that alias)
AliasRegistered(name, supplied) ==
  /\ ret.value.ExpressionAttributeNames.some
  /\ ("#" \o name) \in DOMAIN ret.value.ExpressionAttributeNames.v
  /\ \/ ret.value.ExpressionAttributeNames.v["#" \o name] = name
     \/ ("#" \o name) \in DOMAIN supplied

\* the returned command has no alias for a name, unless the caller supplied one
NoAliasGenerated(name, supplied) ==
  \/ ~ret.value.ExpressionAttributeNames.some
  \/ ("#" \o name) \notin DOMAIN ret.value.ExpressionAttributeNames.v
  \/ ("#" \o name) \in DOMAIN supplied

\* C9: every name of a projection list, whatever the spacing around the
\* commas, and every left-hand side of a generated update assignment that
\* equals a reserved word, letter case ignored, appears as its `#` alias in
\* the output expression, and ExpressionAttributeNames maps the alias to the name.
C9_ReservedNamesAliased ==
  /\ HasProjection =>
       /\ ret.ok
       /\ LET given == ListedNames(call.input.projectionExpression)
              returned == ListedNames(ret.value.ProjectionExpression)
          IN /\ Len(returned) = Len(given)
             /\ \A n \in 1..Len(given) :
                  IsReservedWord(given[n]) =>
                    /\ returned[n] = "#" \o given[n]
                    /\ AliasRegistered(given[n], Spread(call.input.expressionAttributeNames))
  /\ (IsUpdateCall /\ GeneratedMode) =>
       /\ ret.ok
       /\ Len(Assignments) = Len(call.input.item.v)
       /\ \A i \in ItemIndexes :
            IsReservedWord(ItemField(i)) =>
              /\ startsWith(Assignments[i], "#" \o ItemField(i) \o " = ")
              /\ AliasRegistered(ItemField(i), ExternalNames)

\* C10: a name that is no reserved word appears unchanged in the output
\* projection or update expression, also when a reserved word is a part of
\* it, and no alias is generated for it.
C10_NonReservedUntouched ==
  /\ HasProjection =>
       /\ ret.ok
       /\ LET given == ListedNames(call.input.projectionExpression)
              returned == ListedNames(ret.value.ProjectionExpression)
          IN /\ Len(returned) = Len(given)
             /\ \A n \in 1..Len(given) :
                  ~IsReservedWord(given[n]) =>
                    /\ returned[n] = given[n]
                    /\ NoAliasGenerated(given[n], Spread(call.input.expressionAttributeNames))
  /\ (IsUpdateCall /\ GeneratedMode) =>
       /\ ret.ok
       /\ Len(Assignments) = Len(call.input.item.v)
       /\ \A i \in ItemIndexes :
            ~IsReservedWord(ItemField(i)) =>
              /\ startsWith(Assignments[i], ItemField(i) \o " = ")
              /\ NoAliasGenerated(ItemField(i), ExternalNames)

(* ------------------------------------------------------------------ *)
(* Properties of the assembled maps                                    *)
(* ------------------------------------------------------------------ *)

IsPutCall == call.op = "buildPutCommandInput"

IsQueryCall == call.op = "buildQueryCommandInput"

IsBuilderCall == IsGetCall \/ IsPutCall \/ IsQueryCall \/ IsUpdateCall

\* the maps of the returned command (an absent map has no entries)
OutputNames == Spread(ret.value.ExpressionAttributeNames)

OutputValues ==
  IF IsGetCall THEN EmptyMap ELSE Spread(ret.value.ExpressionAttributeValues)

\* the name entries the caller supplied
CallerNames ==
  CASE IsGetCall -> Spread(call.input.expressionAttributeNames)
    [] IsPutCall -> Spread(call.input.expressionAttributeNames)
    [] IsQueryCall -> Spread(call.input.extraExpAttributeNames)
    [] IsUpdateCall -> ExternalNames

\* the value entries the caller supplied
CallerValues ==
  CASE IsGetCall -> EmptyMap
    [] IsPutCall -> Spread(call.input.expressionAttributeValues)
    [] IsQueryCall -> Spread(call.input.extraExpAttributeValues)
    [] IsUpdateCall -> ExternalValues

\* the alias entries of the `#` names among the given names
AliasEntries(names) ==
  {<<names[i], SubSeq(names[i], 2, Len(names[i]))>> :
     i \in {j \in 1..Len(names) : startsWith(names[j], "#")}}

\* the left-hand side and the placeholder of an assignment `lhs = :key`
AssignmentSides(assignment) == split(assignment, " = ")

\* the name entries the builder generates, as <<key, value>> pairs: #pk and
\* #sk of a query, and the aliases that stand in the returned projection
\* list or SET clause (for a Put with a condition: of the item's reserved fields)
GeneratedNames ==
  CASE IsGetCall ->
         IF Truthy(ret.value.ProjectionExpression)
         THEN AliasEntries(ListedNames(ret.value.ProjectionExpression))
         ELSE {}
    [] IsPutCall ->
         IF Truthy(call.input.conditionExpression)
         THEN {<<"#" \o call.input.item[i][1], call.input.item[i][1]>> :
                 i \in {j \in 1..Len(call.input.item) : IsReservedWord(call.input.item[j][1])}}
         ELSE {}
    [] IsQueryCall ->
         {<<"#pk", call.input.queryRequest.pKeyProp>>}
         \cup (IF Truthy(call.input.queryRequest.sKeyProp)
               THEN {<<"#sk", call.input.queryRequest.sKeyProp>>} ELSE {})
         \cup (IF Truthy(ret.value.ProjectionExpression)
               THEN AliasEntries(ListedNames(ret.value.ProjectionExpression))
               ELSE {})
    [] IsUpdateCall ->
         IF GeneratedMode
         THEN AliasEntries([i \in 1..Len(Assignments) |-> AssignmentSides(Assignments[i])[1]])
         ELSE {}

\* the value entries the builder generates: :pk, :sk and :skValue2 of a
\* query, and the placeholder of each generated assignment with its field's value
GeneratedValues ==
  CASE IsGetCall -> {}
    [] IsPutCall -> {}
    [] IsQueryCall ->
         LET q == call.input.queryRequest
         IN {<<":pk", parseDynamoKeyValue(q.pKey, q.pKeyType).value>>}
            \cup (IF Truthy(q.sKey)
                  THEN {<<":sk", parseDynamoKeyValue(q.sKey,
                                   IF q.sKeyType = Undefined THEN "S" ELSE q.sKeyType).value>>}
                  ELSE {})
            \cup (IF Truthy(q.skValue2)
                  THEN {<<":skValue2", parseDynamoKeyValue(q.skValue2,
                                         IF q.skValue2Type = Undefined THEN "S" ELSE q.skValue2Type).value>>}
                  ELSE {})
    [] IsUpdateCall ->
         IF GeneratedMode
         THEN {<<AssignmentSides(Assignments[i])[2], ItemValue(i)>> : i \in 1..Len(Assignments)}
         ELSE {}

\* in the output map, every caller entry stands as supplied, and every key
\* generated and not supplied holds an entry generated for it
CallerEntriesWin(output, caller, generated) ==
  /\ \A k \in DOMAIN caller : k \in DOMAIN output /\ output[k] = caller[k]
  /\ \A e \in generated :
       e[1] \notin DOMAIN caller =>
         /\ e[1] \in DOMAIN output
         /\ \E g \in generated : g[1] = e[1] /\ output[e[1]] = g[2]

IsNextPageCall == IsQueryCall /\ call.lastKey.some

\* C12: pagination round trip: for every key-attribute map m, the cursor
\* string that encodes m (the JSON serialization of the engine's
\* LastEvaluatedKey), passed as queryRequest.lastEvaluatedKey to
\* buildQueryCommandInput, yields ExclusiveStartKey equal to m.
C12_CursorRoundTrip ==
  IsNextPageCall =>
    /\ ret.ok
    /\ ret.value.ExclusiveStartKey = Some(objectOf(call.lastKey.v))

\* the key condition and the key values of the request build without error
KeyPartsBuild ==
  LET q == call.input.queryRequest
  IN /\ generateKeyConditionExpression(q.sKey, q.skValue2, q.skComparator).ok
     /\ parseDynamoKeyValue(q.pKey, q.pKeyType).ok
     /\ Truthy(q.sKey) =>
          parseDynamoKeyValue(q.sKey, IF q.sKeyType = Undefined THEN "S" ELSE q.sKeyType).ok
     /\ Truthy(q.skValue2) =>
          parseDynamoKeyValue(q.skValue2,
                              IF q.skValue2Type = Undefined THEN "S" ELSE q.skValue2Type).ok

\* cursor strings that are not well-formed JSON
MalformedCursors ==
  {"  ", "{not json", "{\"pk\":\"U1\"", "{\"pk\":\"U1\"} x", "{\"pk\":\"U1\",}"}

IsValidatorCall == call.op = "extractQueryParamsFromEvent"

\* the raw parameters of the event (none for null), and the default request
RawOf == Spread(call.event.queryStringParameters)

DefaultOf == call.query

\* the fields of a request
RequestFields ==
  {RequiredFields[i] : i \in 1..Len(RequiredFields)}
  \cup {OptionalFields[i] : i \in 1..Len(OptionalFields)}

SortKeyFieldNames == {"sKey", "sKeyType", "sKeyProp", "skValue2", "skValue2Type", "skComparator"}

\* a raw value is blank: empty or only white space
IsBlank(value) == \A i \in 1..Len(value) : IsSpace(CharAt(value, i))

\* the raw parameters that carry a value
Supplied == {k \in DOMAIN RawOf : ~IsBlank(RawOf[k])}

\* the raw value of a parameter without the white space around it, or
\* undefined when it is not supplied
RawValue(key) == IF key \in Supplied THEN trim(RawOf[key]) ELSE Undefined

\* a request satisfies the schema and the sort-key invariant
IsValidRequest(request) ==
  /\ \A i \in 1..Len(RequiredFields) : request[RequiredFields[i]] # Undefined
  /\ Truthy(request.skComparator) =>
       Truthy(request.sKey) /\ Truthy(request.sKeyProp) /\ Truthy(request.sKeyType)

\* the fields of a request that violate the schema or the sort-key invariant
ViolatedFields(request) ==
  {RequiredFields[i] : i \in {j \in 1..Len(RequiredFields) : request[RequiredFields[j]] = Undefined}}
  \cup (IF Truthy(request.skComparator)
        THEN {f \in {"sKey", "sKeyProp", "sKeyType"} : ~Truthy(request[f])}
        ELSE {})

\* text occurs in s
Contains(s, text) ==
  \E i \in 1..(Len(s) - Len(text) + 1) : SubSeq(s, i, i + Len(text) - 1) = text

\* the error message names a field path
NamesField(message, field) == Contains(message, " " \o field \o ": ")

\* the request made of the raw parameters alone (case 4)
RawRequest ==
  [f \in RequestFields |-> IF f = "indexName" THEN RawValue("index") ELSE RawValue(f)]

\* the raw parameters name an index that is not the default's
NamesOtherIndex == RawValue("index") # Undefined /\ RawValue("index") # DefaultOf.indexName

\* C14: extractQueryParamsFromEvent either returns a request that has its
\* required fields, each taken from the raw parameters or the default, and
\* that has sKey, sKeyProp and sKeyType whenever it has skComparator; or it
\* fails with a status-400 error whose message names the path of every
\* violated field of the request it validated (the default when there are no
\* raw parameters, the raw parameters when they name another index).
C14_ValidatedOrRejected ==
  IsValidatorCall =>
    \/ /\ ret.ok
       /\ IsValidRequest(ret.value)
       /\ \A i \in 1..Len(RequiredFields) :
            ret.value[RequiredFields[i]] \in {RawValue(RequiredFields[i]), DefaultOf[RequiredFields[i]]}
    \/ /\ ~ret.ok
       /\ ret.statusCode = 400
       /\ DOMAIN RawOf = {} => \A f \in ViolatedFields(DefaultOf) : NamesField(ret.error, f)
       /\ NamesOtherIndex => \A f \in ViolatedFields(RawRequest) : NamesField(ret.error, f)


\* the raw limit as normalizeQS leaves it: a number clamped to 1..100,
\* other text as it is
NormalLimit ==
  IF RawValue("limit") = Undefined THEN Undefined
  ELSE IF Number(RawValue("limit")) = NaN THEN RawValue("limit")
       ELSE String(clamp(Number(RawValue("limit")).num))

\* the raw sort direction as normalizeQS leaves it: asc or desc in lower
\* case, or absent
NormalSorting ==
  IF RawValue("sorting") = Undefined THEN Undefined
  ELSE IF toLowerCase(RawValue("sorting")) \in {"asc", "desc"}
       THEN toLowerCase(RawValue("sorting"))
       ELSE Undefined

\* the normalized raw value of a field of the request
NormalValue(field) ==
  CASE field = "limit" -> NormalLimit
    [] field = "sorting" -> NormalSorting
    [] field = "indexName" -> RawValue("index")
    [] OTHER -> RawValue(field)

\* the raw value when one is supplied, else the default's
RawElseDefault(field) == IF NormalValue(field) # Undefined THEN NormalValue(field) ELSE DefaultOf[field]

\* case 3: the raw parameters name the default's index and supply no
\* partition-key value
IsCase3 ==
  /\ IsValidatorCall
  /\ RawValue("index") # Undefined
  /\ RawValue("index") = DefaultOf.indexName
  /\ RawValue("pKey") = Undefined

\* the partition key of the returned request is the default's
DefaultPartitionKey ==
  /\ ret.value.pKey = DefaultOf.pKey
  /\ ret.value.pKeyType = DefaultOf.pKeyType
  /\ ret.value.pKeyProp = DefaultOf.pKeyProp

\* C15 as claimed: in case 3 the returned request has the default's pKey,
\* pKeyType and pKeyProp, and each of the sort-key fields, lastEvaluatedKey,
\* sorting and limit is the raw value when supplied and the default's otherwise.
C15_Case3 ==
  (IsCase3 /\ ret.ok) =>
    /\ DefaultPartitionKey
    /\ \A f \in SortKeyFieldNames \cup {"lastEvaluatedKey", "sorting", "limit"} :
         ret.value[f] = RawElseDefault(f)

\* C15 as amended: in case 3 the returned request has the default's pKey,
\* pKeyType and pKeyProp; each of the sort-key fields, lastEvaluatedKey and
\* sorting is the normalized raw value when supplied and the default's
\* otherwise; limit is the normalized raw value when supplied, else the
\* default's, and 20 when neither gives one.
C15_Case3Amended ==
  (IsCase3 /\ ret.ok) =>
    /\ DefaultPartitionKey
    /\ \A f \in SortKeyFieldNames \cup {"lastEvaluatedKey", "sorting"} :
         ret.value[f] = RawElseDefault(f)
    /\ ret.value.limit = IF RawElseDefault("limit") # Undefined THEN RawElseDefault("limit") ELSE "20"

\* a case-3 request returned with the default's partition key although the
\* raw parameters give a key type and property, with the raw sort key, and
\* with the limit 20 that neither the raw parameters nor the default gave
C15_Witness ==
  /\ IsCase3 /\ ret.ok
  /\ RawValue("pKeyType") = "N" /\ ret.value.pKeyType = "S"
  /\ RawValue("sKey") = "A" /\ ret.value.sKey = "A"
  /\ NormalLimit = Undefined /\ DefaultOf.limit = Undefined /\ ret.value.limit = "20"


\* case 4: raw parameters are supplied, not only limit and sort direction,
\* and it is not the case that they name the default's index while
\* supplying no partition-key value
IsCase4 ==
  /\ IsValidatorCall
  /\ Supplied # {}
  /\ ~(Supplied \subseteq {"limit", "sorting"})
  /\ ~(/\ RawValue("index") # Undefined
       /\ RawValue("index") = DefaultOf.indexName
       /\ RawValue("pKey") = Undefined)

\* C16: in case 4 the returned request is built from the raw parameters
\* only: pKey, pKeyType, pKeyProp and the sort-key fields are the raw values
\* (never the default's), indexName is the raw index or else the default's,
\* and limit is 20 when the raw parameters give none; when the raw
\* parameters lack pKey the call fails with a validation error.
C16_Case4 ==
  IsCase4 =>
    /\ RawValue("pKey") = Undefined => (~ret.ok /\ ret.statusCode = 400)
    /\ ret.ok =>
         /\ \A f \in {"pKey", "pKeyType", "pKeyProp"} \cup SortKeyFieldNames :
              ret.value[f] = RawValue(f)
         /\ ret.value.indexName =
              IF RawValue("index") # Undefined THEN RawValue("index") ELSE DefaultOf.indexName
         /\ ret.value.limit = IF NormalLimit # Undefined THEN NormalLimit ELSE "20"


\* case 2: the raw parameters contain only limit and/or sort direction
IsCase2 ==
  /\ IsValidatorCall
  /\ DOMAIN RawOf # {}
  /\ DOMAIN RawOf \subseteq {"limit", "sorting"}

\* C17: in case 2, with a valid default, the returned request equals the
\* default in every field other than limit and sorting, and its limit and
\* sorting are the normalized raw values for those that were supplied.
C17_Case2 ==
  (IsCase2 /\ IsValidRequest(DefaultOf)) =>
    /\ ret.ok
    /\ \A f \in RequestFields \ {"limit", "sorting"} : ret.value[f] = DefaultOf[f]
    /\ ret.value.limit = RawElseDefault("limit")
    /\ ret.value.sorting = RawElseDefault("sorting")

\* case 1: the event carries no raw query parameters (null or an empty map)
IsCase1 == IsValidatorCall /\ DOMAIN RawOf = {}

\* C18: in case 1 a valid default is returned equal in every field, and an
\* invalid default makes the call fail with a validation error (status 400).
C18_Case1 ==
  IsCase1 =>
    /\ IsValidRequest(DefaultOf) =>
         (ret.ok /\ \A f \in RequestFields : ret.value[f] = DefaultOf[f])
    /\ ~IsValidRequest(DefaultOf) =>
         (~ret.ok /\ ret.statusCode = 400)

\* an event with null parameters, answered with the default that has
\* sort-key fields, a limit, a direction and a cursor
C18_Witness ==
  /\ IsCase1 /\ ~call.event.queryStringParameters.some
  /\ ret.ok
  /\ DefaultOf.skComparator = "between"
  /\ ret.value = DefaultOf

\* the raw parameters without the entries whose value is blank
WithoutBlanks == [k \in Supplied |-> RawOf[k]]

\* C19: a blank raw value is treated as absent: the outcome (the returned
\* request or the failure) is the outcome for the raw parameters without
\* every entry whose value is empty or only white space.
C19_BlankIsAbsent ==
  IsValidatorCall =>
    ret = extractQueryParamsFromEvent([queryStringParameters |-> Some(WithoutBlanks)], DefaultOf)

\* a limit is absent or denotes a number in 1..100
InRange(limit) ==
  \/ limit = Undefined
  \/ /\ Number(limit) # NaN
     /\ Number(limit).num >= 1
     /\ Number(limit).num <= 100

\* the Query command built from the returned request
BuiltQuery == buildQueryCommandInput(QueryInput(ret.value, None, None, Undefined, None))

\* C20: every returned request has a limit that is absent or denotes a
\* number in 1..100, whatever the raw limit and the default; and the Limit of
\* the Query command built from it is absent or a number in 1..100.
C20_LimitInRange ==
  (IsValidatorCall /\ ret.ok) =>
    /\ InRange(ret.value.limit)
    /\ BuiltQuery.ok =>
         \/ ~BuiltQuery.value.Limit.some
         \/ /\ BuiltQuery.value.Limit.v # NaN
            /\ BuiltQuery.value.Limit.v.num >= 1
            /\ BuiltQuery.value.Limit.v.num <= 100


\* the direction the caller asked for: the raw direction when it is asc or
\* desc in any letter case, else the default's
RequestedDirection ==
  IF NormalSorting # Undefined THEN NormalSorting
  ELSE IF DefaultOf.sorting = Undefined THEN Undefined
       ELSE toLowerCase(DefaultOf.sorting)

\* C21: every returned request has sorting asc, desc or absent, in all four
\* cases and also when the sorting comes from the default; and the Query
\* command built from a request returned in cases 1 to 3 scans forward
\* exactly when the requested direction, in any letter case, is not desc.
C21_SortingCanonical ==
  (IsValidatorCall /\ ret.ok) =>
    /\ ret.value.sorting \in {"asc", "desc", Undefined}
    /\ (BuiltQuery.ok /\ ~IsCase4 /\ RequestedDirection \in {"asc", "desc"}) =>
         (BuiltQuery.value.ScanIndexForward <=> RequestedDirection = "asc")


(* ------------------------------------------------------------------ *)
(* Properties of the assembled commands                                *)
(* ------------------------------------------------------------------ *)

\* the expressions of the returned command
OutputExpressions ==
  CASE IsGetCall -> {ret.value.ProjectionExpression}
    [] IsPutCall -> {ret.value.ConditionExpression}
    [] IsQueryCall -> {ret.value.KeyConditionExpression, ret.value.ProjectionExpression,
                       ret.value.FilterExpression}
    [] IsUpdateCall -> {ret.value.UpdateExpression, ret.value.ConditionExpression}

\* the returned command has no empty name map and no empty value map
NoEmptyMap ==
  /\ ret.value.ExpressionAttributeNames # Some(EmptyMap)
  /\ ~IsGetCall => ret.value.ExpressionAttributeValues # Some(EmptyMap)

\* C22: no command returned by the Get, Put, Query or Update builder carries
\* an empty ExpressionAttributeNames map, an empty ExpressionAttributeValues
\* map or an empty-string expression, also when the caller supplied an empty
\* map or an empty string.
C22_NoEmptyOptionals ==
  (IsBuilderCall /\ ret.ok) =>
    /\ NoEmptyMap
    /\ "" \notin OutputExpressions


(* ------------------------------------------------------------------ *)
(* Properties of the typed-value parser                                *)
(* ------------------------------------------------------------------ *)

IsKeyValueCall == call.op = "parseDynamoKeyValue"

\* the tags of the switch
KnownKeyTypes == {"S", "N", "BOOL", "NULL", "M", "L", "SS", "NS", "BS"}

\* the integers whose decimal numerals are among the raw strings
Numerals == (0 - 10)..50

\* the raw string is the word true, in any letter case
IsTrueWord(key) ==
  /\ Len(key) = 4
  /\ \A i \in 1..4 : CharAt(key, i) \in {CharAt("true", i), CharAt("TRUE", i)}

\* the JSON texts among the raw strings that are well formed, with the
\* values they denote, and the malformed ones
DecodedJson ==
  ("42" :> JNum(42)) @@ ("-7" :> JNum(0 - 7)) @@ ("0" :> JNum(0)) @@ (" 5 " :> JNum(5))
  @@ ("true" :> JBool(TRUE)) @@ ("false" :> JBool(FALSE)) @@ ("null" :> JNull)
  @@ ("{\"a\":1}" :> JObj("a" :> JNum(1))) @@ ("[1,2]" :> JArr(<<JNum(1), JNum(2)>>))

MalformedJson == RawKeys \ DOMAIN DecodedJson

\* what C23 says of the tags other than BOOL: N gives the number the raw
\* string denotes, S the raw string, NULL null, M and L the decoded JSON or
\* an error on malformed JSON, and a tag outside the switch an error
TypedValueParsed ==
  /\ call.keyType = "N" =>
       \A n \in Numerals : String(n) = call.key => (ret.ok /\ ret.value = JNum(n))
  /\ call.keyType = "S" => (ret.ok /\ ret.value = JStr(call.key))
  /\ call.keyType = "NULL" => (ret.ok /\ ret.value = JNull)
  /\ call.keyType \in {"M", "L"} =>
       /\ call.key \in DOMAIN DecodedJson => (ret.ok /\ ret.value = DecodedJson[call.key])
       /\ call.key \in MalformedJson => ~ret.ok
  /\ call.keyType \notin KnownKeyTypes => ~ret.ok

\* C23 as claimed: tag BOOL gives true for the raw string "true" and false
\* for every other raw string; the other tags as in TypedValueParsed.
C23_TypedValues ==
  IsKeyValueCall =>
    /\ TypedValueParsed
    /\ call.keyType = "BOOL" => (ret.ok /\ ret.value = JBool(call.key = "true"))

\* C23 as amended: tag BOOL gives true for the word true in any letter case
\* and false for every other raw string; the other tags as in
\* TypedValueParsed.
C23_TypedValuesAmended ==
  IsKeyValueCall =>
    /\ TypedValueParsed
    /\ call.keyType = "BOOL" => (ret.ok /\ ret.value = JBool(IsTrueWord(call.key)))

\* the raw string TRUE read as the boolean true
C23_Witness ==
  /\ IsKeyValueCall
  /\ call.keyType = "BOOL" /\ call.key = "TRUE"
  /\ ret.ok /\ ret.value = JBool(TRUE)


\* the numbers denoted by the items that are decimal numerals, in order; an
\* item that is no numeral (empty, blank, other text) gives no element
RECURSIVE numeralsOf(_)
numeralsOf(items) ==
  IF items = <<>> THEN <<>>
  ELSE (IF \E n \in Numerals : String(n) = trim(items[1])
        THEN <<JNum(CHOOSE n \in Numerals : String(n) = trim(items[1]))>>
        ELSE <<>>) \o numeralsOf(Tail(items))

\* C24: with tag NS, parseDynamoKeyValue returns exactly the well-formed
\* numeric items of the comma-separated raw string, in order; every other
\* item, an empty one included, is dropped, and no error is raised.
C24_NumberSet ==
  (IsKeyValueCall /\ call.keyType = "NS") =>
    /\ ret.ok
    /\ ret.value = JArr(numeralsOf(split(call.key, ",")))


(* ------------------------------------------------------------------ *)
(* Properties of the HTTP handler wrapper                              *)
(* ------------------------------------------------------------------ *)

IsHandlerCall == call.op = "createHttpHandler"

\* the callback's call failed before any command reached the engine: a
\* validation violation, an unknown or incompatible comparator, an
\* unsupported type tag or malformed map/list JSON, a malformed cursor
CoreFailure == ~call.outcome.ok /\ sent = <<>>

\* the callback's call failed because the storage engine did
StorageFailure == ~call.outcome.ok /\ sent # <<>>

\* the validator rejected the request
ValidationFailure == CoreFailure /\ call.callback.op = "extractQueryParamsFromEvent"

\* C25: the handler made by createHttpHandler always returns a response; a
\* failure raised by the core (validation violation, unknown or
\* incompatible comparator, unsupported type tag or malformed map/list
\* JSON, malformed pagination cursor) is rendered as a 4xx response, and a
\* storage-engine failure as a 5xx response.
C25_ErrorClassification ==
  IsHandlerCall =>
    /\ ret.ok
    /\ CoreFailure => ret.value.statusCode \in 400..499
    /\ StorageFailure => ret.value.statusCode \in 500..599


(* ------------------------------------------------------------------ *)
(* Properties of the record layer                                      *)
(* ------------------------------------------------------------------ *)

IsRecordCall == call.op \in RecordOps

\* a queryRecords call that was given the lastEvaluatedKey returned by the
\* previous queryRecords call
IsNextPageRecordCall == call.op = "queryRecords" /\ "previous" \in DOMAIN call

\* the ExclusiveStartKey that resumes after the previous page: the engine's
\* LastEvaluatedKey of that page, and none after the last page
ResumeKey ==
  IF call.previous.LastEvaluatedKey.some
  THEN Some(objectOf(call.previous.LastEvaluatedKey.v))
  ELSE None

\* C26: when queryRecords is given the lastEvaluatedKey that the previous
\* call returned, the command sent to the engine carries as
\* ExclusiveStartKey exactly the engine's LastEvaluatedKey of the previous
\* page, and no ExclusiveStartKey when the previous page had no
\* LastEvaluatedKey.
C26_PaginationResumes ==
  IsNextPageRecordCall =>
    /\ Len(sent) = 1
    /\ sent[1].ExclusiveStartKey = ResumeKey


\* the command the function's builder makes of the call's input
AssembledCommand ==
  CASE call.op = "getRecordByKey" -> buildGetCommandInput(call.input)
    [] call.op = "queryRecords" -> buildQueryCommandInput(call.input)
    [] call.op = "createRecord" -> buildPutCommandInput(call.input)
    [] call.op = "updateRecord" -> buildUpdateCommandInput(call.input)

\* the storage call of the invocation has failed
EngineFailed == call.response.some /\ ~call.response.v.ok

\* C27: an invocation of getRecordByKey, queryRecords, createRecord or
\* updateRecord sends at most one command to the storage engine, the
\* command its builder assembled, and none when assembly fails (the caller
\* then receives the failure); when the storage call fails the caller
\* receives a failure: the engine's Error itself, or a CustomError that
\* wraps a value that is no Error.
C27_OneStorageCall ==
  IsRecordCall =>
    /\ Len(sent) <= 1
    /\ AssembledCommand.ok => sent = <<AssembledCommand.value>>
    /\ ~AssembledCommand.ok => (sent = <<>> /\ call.pc = "returned" /\ ~ret.ok)
    /\ EngineFailed =>
         /\ ~ret.ok
         /\ IsError(call.response.v) => ret = call.response.v
         /\ ~IsError(call.response.v) => IsCustomError(ret)

\* an updateRecord call whose one storage call failed with a value that is
\* no Error, answered to the caller with the wrapping CustomError
C27_Witness ==
  /\ call.op = "updateRecord"
  /\ Len(sent) = 1
  /\ EngineFailed /\ ~IsError(call.response.v)
  /\ ~ret.ok /\ ret.error = "Unexpected error while updating record."


(* ------------------------------------------------------------------ *)
(* Properties of the Query command of a validated request              *)
(* ------------------------------------------------------------------ *)

\* the token occurs in the expression, not as the beginning of a longer one
HasToken(expression, token) ==
  \E i \in 1..(Len(expression) - Len(token) + 1) :
    /\ SubSeq(expression, i, i + Len(token) - 1) = token
    /\ ~IsWordChar(peek(expression, i + Len(token)))

KeyNameTokens == {"#pk", "#sk"}

KeyValueTokens == {":pk", ":sk", ":skValue2"}

\* C29: for every request the validator returns, each name token (#pk, #sk)
\* and each value token (:pk, :sk, :skValue2) that occurs in the
\* KeyConditionExpression of the Query command built from it is a key of
\* that command's ExpressionAttributeNames or ExpressionAttributeValues.
C29_PlaceholderClosure ==
  (IsValidatorCall /\ ret.ok /\ BuiltQuery.ok) =>
    /\ \A token \in KeyNameTokens :
         HasToken(BuiltQuery.value.KeyConditionExpression, token) =>
           token \in DOMAIN Spread(BuiltQuery.value.ExpressionAttributeNames)
    /\ \A token \in KeyValueTokens :
         HasToken(BuiltQuery.value.KeyConditionExpression, token) =>
           token \in DOMAIN Spread(BuiltQuery.value.ExpressionAttributeValues)


(* ------------------------------------------------------------------ *)
(* Collision safety of the generated update placeholders               *)
(* ------------------------------------------------------------------ *)

\* the placeholder of the i-th assignment of the returned SET clause
Placeholder(i) == AssignmentSides(Assignments[i])[2]

\* C30: in generated mode the placeholders of distinct item fields are
\* pairwise distinct and none is a key of the externally supplied value
\* map; ExpressionAttributeValues has one entry per item field and one per
\* external entry, each external entry keeps its value, and the placeholder
\* of each assignment of the SET clause holds the value of its own field.
C30_PlaceholdersDistinct ==
  (IsUpdateCall /\ GeneratedMode /\ ret.ok) =>
    /\ Len(Assignments) = Len(call.input.item.v)
    /\ \A i, j \in ItemIndexes : i # j => Placeholder(i) # Placeholder(j)
    /\ \A i \in ItemIndexes : Placeholder(i) \notin DOMAIN ExternalValues
    /\ ret.value.ExpressionAttributeValues.some
    /\ Cardinality(DOMAIN ret.value.ExpressionAttributeValues.v) =
         Len(call.input.item.v) + Cardinality(DOMAIN ExternalValues)
    /\ \A k \in DOMAIN ExternalValues :
         /\ k \in DOMAIN ret.value.ExpressionAttributeValues.v
         /\ ret.value.ExpressionAttributeValues.v[k] = ExternalValues[k]
    /\ \A i \in ItemIndexes :
         /\ Placeholder(i) \in DOMAIN ret.value.ExpressionAttributeValues.v
         /\ ret.value.ExpressionAttributeValues.v[Placeholder(i)] = ItemValue(i)

(* ------------------------------------------------------------------ *)
(* C28: purity of the builders and of the validator                    *)
(* ------------------------------------------------------------------ *)

\* what the function called makes of the arguments of the call, and of
\* nothing else
ResultAlone ==
  CASE call.op = "buildGetCommandInput" -> buildGetCommandInput(call.input)
    [] call.op = "buildPutCommandInput" -> buildPutCommandInput(call.input)
    [] call.op = "buildQueryCommandInput" -> buildQueryCommandInput(call.input)
    [] call.op = "buildUpdateCommandInput" -> buildUpdateCommandInput(call.input)
    [] call.op = "extractQueryParamsFromEvent" -> extractQueryParamsFromEvent(call.event, call.query)

====
